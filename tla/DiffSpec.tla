------------------------------ MODULE DiffSpec ------------------------------
(***************************************************************************)
(* What StateDiff.from_tries promises of the accumulator it fills, stated  *)
(* without tries: the result starts empty; entries are added one at a     *)
(* time and never overwritten; every side of an entry is absent or the    *)
(* value the corresponding world holds, and the two sides differ; slot    *)
(* entries are recorded under the account recorded last, while no other   *)
(* account has been recorded since; and the call ends, by returning or by *)
(* raising, after which nothing changes.                                  *)
(***************************************************************************)
EXTENDS TLC

CONSTANTS None, Addresses, SlotKeys

VARIABLES
    accountsBefore, \* address -> account value in the pre world, or None
    accountsAfter,  \* address -> account value in the post world, or None
    slotsBefore,    \* address -> slot -> value in the pre world, or None
    slotsAfter,     \* address -> slot -> value in the post world, or None
    accountDiffs,   \* address -> <<pre, post>>
    storageDiffs,   \* address -> slot -> <<pre, post>>
    current,        \* the account recorded last, or None
    outcome         \* "running", "done" or "error"

\* The two worlds are read-only inputs: only the accumulator, the account
\* recorded last and the outcome are state of the call.
avars == <<accountDiffs, storageDiffs, current, outcome>>

\* The pairs an entry may hold: each side absent or the true value, and
\* the two sides different.
Entries(before, after) == {p \in {None, before} \X {None, after} : p[1] # p[2]}

Init ==
    /\ accountDiffs = <<>>
    /\ storageDiffs = <<>>
    /\ current = None
    /\ outcome = "running"

RecordAccount(a) ==
    /\ outcome = "running"
    /\ a \notin DOMAIN accountDiffs
    /\ \E p \in Entries(accountsBefore[a], accountsAfter[a]) :
          accountDiffs' = (a :> p) @@ accountDiffs
    /\ current' = a
    /\ UNCHANGED <<storageDiffs, outcome>>

RecordSlot(k) ==
    /\ outcome = "running"
    /\ current # None
    /\ LET inner == IF current \in DOMAIN storageDiffs THEN storageDiffs[current] ELSE <<>>
       IN /\ k \notin DOMAIN inner
          /\ \E p \in Entries(slotsBefore[current][k], slotsAfter[current][k]) :
                storageDiffs' = (current :> ((k :> p) @@ inner)) @@ storageDiffs
    /\ UNCHANGED <<accountDiffs, current, outcome>>

Finish ==
    /\ outcome = "running"
    /\ outcome' = "done"
    /\ UNCHANGED <<accountDiffs, storageDiffs, current>>

Fail ==
    /\ outcome = "running"
    /\ outcome' = "error"
    /\ UNCHANGED <<accountDiffs, storageDiffs, current>>

Next ==
    \/ \E a \in Addresses : RecordAccount(a)
    \/ \E k \in SlotKeys : RecordSlot(k)
    \/ Finish
    \/ Fail

Spec == Init /\ [][Next]_avars

\* The call ends: it returns or raises, whatever the tries hold.
Ends == <>(outcome # "running")

LiveSpec == Spec /\ Ends

=============================================================================
