------------------------------- MODULE MCShell -------------------------------
(***************************************************************************)
(* The desktop app's two doors, in two scenes: pages that pair with its    *)
(* server; the user who signs in to the wallets of the stick, which is     *)
(* pulled and comes back.                                                  *)
(***************************************************************************)
EXTENDS WsPairing, TLC

CONSTANTS Wallet, Path, Password

\* What a wallet.json or the mount point may be instead of a path.
ASSUME PathAssumption == {"none", "torn", "out"} \cap Path = {}

VARIABLES at, seed, meta, config, legacy, page, usb, op, step, todo, done, used, doomed, steady,
          scene  \* which of the two

stickVars == <<at, seed, meta, config, legacy, page, usb, op, step, todo, done, used, doomed, steady>>

Stick == INSTANCE WalletStore

\* The members of each set differ in nothing but their name.
Symmetry == UNION {Permutations(S) : S \in {Page, Wallet, Path, Password}}

MCInit ==
    /\ Init /\ Stick!Init
    /\ scene \in {"pairing", "stick"}
    /\ scene = "pairing" => config = "none"
MCNext ==
    /\ UNCHANGED scene
    /\ \/ scene = "pairing" /\ Next /\ UNCHANGED stickVars
       \/ scene = "stick" /\ Stick!Next /\ UNCHANGED vars
MCSpec == MCInit /\ [][MCNext]_<<vars, stickVars, scene>>

-----------------------------------------------------------------------------
\* The wallets' files keep the promise of Vault, wherever the app dies, a write
\* fails or the stick is pulled; their variables have their types.
KeepsWallets == Stick!KeepsWallets /\ []Stick!TypeOK
=============================================================================
