--------------------------- MODULE TokenApprovals ---------------------------
(***************************************************************************)
(* The approvals tab: the list of ERC-20 approvals, the panel that         *)
(* confirms one revocation, the panel that confirms a selection of them,   *)
(* and the two flows that sign.  The panels and the flows are independent: *)
(* a list that is loaded anew, another filter, another selection or        *)
(* another panel never stops a flow.                                       *)
(***************************************************************************)
EXTENDS FiniteSets

CONSTANTS
    Entry,     \* approvals: network, token, spender and owner
    Network,
    NetworkOf,
    Red,       \* entries the list rates red
    Flagged,   \* entries whose token is on the backend gate's blacklist
    All,       \* the filter that shows every network
    None

VARIABLES
    open,      \* the tab is shown
    granted,   \* approvals on the chain
    list,      \* approvals
    loads,     \* get_token_approvals calls in progress, by what they will answer
    filter,    \* filterNetwork
    selected,  \* selectedIds
    panel,     \* pendingRevoke
    batch,     \* pendingBatch
    batchAck,  \* batchAcknowledged
    revoking,  \* revokingId
    run,       \* batchRevoking: what is left of the batch
    orphans,   \* revocations that flows of a tab that is gone still make
    confirmed, \* history: entries the user confirmed
    acked      \* history: red entries of the batch panel whose box the user ticked

view == <<open, filter, selected, panel, batch, batchAck, revoking>>
vars == <<view, granted, list, loads, run, orphans, confirmed, acked>>

Visible == {e \in list : filter \in {All, NetworkOf[e]}}

Init ==
    /\ open = FALSE
    /\ granted = Entry
    /\ list = {}
    /\ loads = {}
    /\ filter = All
    /\ selected = {}
    /\ panel = None
    /\ batch = {}
    /\ batchAck = FALSE
    /\ revoking = None
    /\ run = {}
    /\ orphans = {}
    /\ confirmed = {}
    /\ acked = {}

-----------------------------------------------------------------------------
\* The tab is mounted: a list of its own, and a first load.
Mount ==
    /\ ~open
    /\ open' = TRUE
    /\ list' = {}
    /\ loads' = {granted}
    /\ UNCHANGED <<granted, filter, selected, panel, batch, batchAck, revoking, run, orphans,
                   confirmed, acked>>

Unmount ==
    /\ open
    /\ open' = FALSE
    /\ list' = {}
    /\ loads' = {}
    /\ filter' = All
    /\ selected' = {}
    /\ panel' = None
    /\ batch' = {}
    /\ batchAck' = FALSE
    /\ revoking' = None
    /\ orphans' = orphans \cup run \cup ({revoking} \ {None})
    /\ run' = {}
    /\ UNCHANGED <<granted, confirmed, acked>>

\* loadApprovals, of the Refresh button (disabled while a load shows).
Refresh ==
    /\ open
    /\ loads = {}
    /\ loads' = {granted}
    /\ UNCHANGED <<view, granted, list, run, orphans, confirmed, acked>>

\* The answer of an older load can be the last to come.  A failure keeps the list.
LoadReturns(l) ==
    /\ loads' = loads \ {l}
    /\ list' \in {l, list}
    /\ UNCHANGED <<view, granted, run, orphans, confirmed, acked>>

SetFilter(n) ==
    /\ open /\ list # {}
    /\ n \in {All} \cup {NetworkOf[e] : e \in list}
    /\ filter' = n
    /\ UNCHANGED <<open, selected, panel, batch, batchAck, revoking, granted, list, loads,
                   run, orphans, confirmed, acked>>

\* A row's box, Select all, Deselect all.
Select(s) ==
    /\ open /\ Visible # {}
    /\ \/ \E e \in Visible : s \in {selected \cup {e}, selected \ {e}}
       \/ s = {} \/ s = Visible
    /\ s # selected
    /\ selected' = s
    /\ UNCHANGED <<open, filter, panel, batch, batchAck, revoking, granted, list, loads,
                   run, orphans, confirmed, acked>>

-----------------------------------------------------------------------------
(***************************************************************************)
(* One revocation.                                                         *)
(***************************************************************************)
HandleRevoke(e) ==
    /\ open
    /\ e \in Visible
    /\ revoking # e /\ run = {}
    /\ panel' = e
    /\ UNCHANGED <<open, filter, selected, batch, batchAck, revoking, granted, list, loads,
                   run, orphans, confirmed, acked>>

CancelRevoke ==
    /\ panel # None /\ revoking = None
    /\ panel' = None
    /\ UNCHANGED <<open, filter, selected, batch, batchAck, revoking, granted, list, loads,
                   run, orphans, confirmed, acked>>

\* The box of useSignReview is ticked when its report asks for it.
ConfirmRevoke ==
    /\ panel # None /\ revoking = None
    /\ revoking' = panel
    /\ confirmed' = confirmed \cup {panel}
    /\ UNCHANGED <<open, filter, selected, panel, batch, batchAck, granted, list, loads,
                   run, orphans, acked>>

\* executeRevoke: no acknowledgedRisk goes along, so the gate refuses what it
\* flags.  Its finally block clears the row and whatever panel is open; a
\* success loads the list again.
RevokeEnds ==
    /\ revoking # None
    /\ granted' \in {granted, granted \ ({revoking} \ Flagged)}
    /\ revoking' = None
    /\ panel' = None
    /\ loads' \in {loads, loads \cup {granted'}}
    /\ UNCHANGED <<open, filter, selected, batch, batchAck, list, run, orphans, confirmed, acked>>

\* The closure of a tab that is gone goes on; its results reach nothing.
OrphanEnds(e) ==
    /\ orphans' = orphans \ {e}
    /\ granted' \in {granted, granted \ ({e} \ Flagged)}
    /\ UNCHANGED <<view, list, loads, run, confirmed, acked>>

-----------------------------------------------------------------------------
(***************************************************************************)
(* A batch.                                                                *)
(***************************************************************************)
HandleBatchRevoke ==
    /\ open /\ run = {}
    /\ Visible \cap selected # {}
    /\ batch' = Visible \cap selected
    /\ batchAck' = FALSE
    /\ acked' = {}
    /\ UNCHANGED <<open, filter, selected, panel, revoking, granted, list, loads,
                   run, orphans, confirmed>>

CancelBatch ==
    /\ batch # {} /\ run = {}
    /\ batch' = {}
    /\ UNCHANGED <<open, filter, selected, panel, batchAck, revoking, granted, list, loads,
                   run, orphans, confirmed, acked>>

BatchRequiresAcknowledge == batch \cap Red # {}

TickBatch ==
    /\ BatchRequiresAcknowledge
    /\ batchAck' = ~batchAck
    /\ acked' = IF run # {} THEN acked ELSE IF batchAck THEN {} ELSE batch \cap Red
    /\ UNCHANGED <<open, filter, selected, panel, batch, revoking, granted, list, loads,
                   run, orphans, confirmed>>

\* Mutant: the loop takes what is selected now.
ExecuteSelected ==
    /\ batch # {} /\ run = {}
    /\ BatchRequiresAcknowledge => batchAck
    /\ run' = selected
    /\ confirmed' = confirmed \cup batch
    /\ UNCHANGED <<view, granted, list, loads, orphans, acked>>

\* The loop goes over the list the panel showed.
ExecuteBatchRevoke ==
    /\ batch # {} /\ run = {}
    /\ BatchRequiresAcknowledge => batchAck
    /\ run' = batch
    /\ confirmed' = confirmed \cup batch
    /\ UNCHANGED <<view, granted, list, loads, orphans, acked>>

\* One entry of the loop; the last one ends the batch.
BatchStep(e) ==
    /\ run' = run \ {e}
    /\ granted' \in {granted, granted \ ({e} \ Flagged)}
    /\ IF run' = {}
       THEN selected' = {} /\ batch' = {} /\ loads' = loads \cup {granted'}
       ELSE UNCHANGED <<selected, batch, loads>>
    /\ UNCHANGED <<open, filter, panel, batchAck, revoking, list, orphans, confirmed, acked>>

-----------------------------------------------------------------------------
Returns ==
    \/ \E l \in loads : LoadReturns(l)
    \/ RevokeEnds
    \/ \E e \in orphans : OrphanEnds(e)
    \/ \E e \in run : BatchStep(e)

Steps ==
    \/ Refresh
    \/ \E n \in Network \cup {All} : SetFilter(n)
    \/ \E s \in SUBSET Entry : Select(s)
    \/ \E e \in Entry : HandleRevoke(e)
    \/ CancelRevoke \/ ConfirmRevoke
    \/ HandleBatchRevoke \/ CancelBatch \/ TickBatch \/ ExecuteBatchRevoke
    \/ Returns

Next == Mount \/ Unmount \/ Steps

Spec == Init /\ [][Next]_vars

-----------------------------------------------------------------------------
TypeOK ==
    /\ {open, batchAck} \subseteq BOOLEAN
    /\ granted \subseteq Entry /\ list \subseteq Entry
    /\ loads \subseteq SUBSET Entry
    /\ filter \in Network \cup {All}
    /\ selected \subseteq Entry /\ batch \subseteq Entry
    /\ {panel, revoking} \subseteq Entry \cup {None}
    /\ orphans \subseteq Entry /\ run \subseteq Entry
    /\ confirmed \subseteq Entry /\ acked \subseteq Red

\* Every red entry of a running batch was in a list whose box the user ticked.
RedIsAcknowledged == run \cap Red \subseteq acked

\* An approval leaves the chain only if the user confirmed its revocation, in
\* whichever panel, however the list, the filter and the selection changed since.
RevokedIsConfirmed == Entry \ granted \subseteq confirmed
=============================================================================
