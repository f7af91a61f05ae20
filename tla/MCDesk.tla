------------------------------- MODULE MCDesk -------------------------------
(***************************************************************************)
(* The pages that keep a list of what the backend stores, in two scenes:   *)
(* the home page with its wallets, and the address book.                   *)
(***************************************************************************)
EXTENDS AddressBook, FiniteSets, TLC

CONSTANTS Wallet, MaxHomeCalls

VARIABLES plugged, stick, gone, list, selected, view, loads, loading, read, homeCalls, toDelete,
          homeDeleting, entered, phrase, owed, asked,
          scene  \* which of the two

homeVars == <<plugged, stick, gone, list, selected, view, loads, loading, read, homeCalls, toDelete,
              homeDeleting, entered, phrase, owed, asked>>

Home == INSTANCE Home WITH MaxCalls <- MaxHomeCalls, calls <- homeCalls, deleting <- homeDeleting

ASSUME HomeAssumption == MaxHomeCalls \in Nat /\ None \notin Wallet /\ Wallet # {}

\* Wallets, contacts and what is kept of these differ in nothing but their name.
Symmetry == Permutations(Wallet) \cup Permutations(Contact) \cup Permutations(Data)

\* The home page asks for no third detection of the stick while two wait, nor
\* for a second one over a full queue.
FewLoads == 2 * Cardinality(loads) + Len(homeCalls) <= 4

\* The stick is out only while no more than two requests are under way.
FewAway == inserted \/ Len(calls) + Len(answers) <= 2

MCInit ==
    /\ Init /\ Home!Init
    /\ scene \in {"home", "contacts"}
    /\ scene = "contacts" => stick = {}
MCNext ==
    /\ UNCHANGED scene
    /\ \/ scene = "home" /\ Home!Next /\ FewLoads' /\ UNCHANGED vars
       \/ scene = "contacts" /\ Next /\ FewAway' /\ UNCHANGED homeVars
MCSpec == MCInit /\ [][MCNext]_<<vars, homeVars, scene>>

-----------------------------------------------------------------------------
\* What the home page shows settles on what the stick holds, and no deletion is
\* waited for that was answered.
HomeSettles == Home!HomeSettles

\* The page of a wallet is unlocked only by a password that was entered on it
\* since it was opened.
DetailIsEntered == Home!DetailIsEntered

\* The user's own steps never lose the recovery phrase of a new wallet.
PhraseIsShown == Home!PhraseIsShown
=============================================================================
