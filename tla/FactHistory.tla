------------------------------ MODULE FactHistory ------------------------------
(***************************************************************************)
(* What the mainnet capture promises to the counters that go on from one   *)
(* capture to the next (countEvents with loadPreviousModuleStates): the    *)
(* facts of one package in packagefacts, each named by the run that probed *)
(* it, and which of them each published snapshot holds.  Only the newest   *)
(* run adds a fact, what is published stays, and a snapshot that has a     *)
(* fact of the package has a newer one than every snapshot before it.  A   *)
(* fact that no snapshot holds may be deleted, be published by a later run *)
(* that carries it forward, or lie about for ever, as do the facts of a    *)
(* run that died before it wrote a header.                                 *)
(*                                                                         *)
(* MainnetCapture implements it for every package; EventCount adds to it   *)
(* what the facts count.                                                   *)
(***************************************************************************)
EXTENDS Integers

CONSTANTS
    MaxRuns,     \* captures
    Snapshots    \* the names of their snapshots

VARIABLES
    turn,     \* captures begun so far; the last one may be at work
    stored,   \* the runs that have a fact of this package in packagefacts
    shown     \* published snapshot -> the run whose fact it holds, or NoFact

historyVars == <<turn, stored, shown>>

NoFact == 0
Before == -1   \* a fact from before the history began

HistoryInit ==
    /\ turn \in 0 .. MaxRuns
    /\ stored \in SUBSET ({Before} \cup 1 .. turn)
    /\ shown = [i \in {} |-> NoFact]

BeginRun ==
    /\ turn < MaxRuns
    /\ turn' = turn + 1
    /\ UNCHANGED <<stored, shown>>

AddFact ==
    /\ turn > 0 /\ turn \notin stored
    /\ stored' = stored \cup {turn}
    /\ UNCHANGED <<turn, shown>>

Published == {shown[i] : i \in DOMAIN shown} \ {NoFact}

DropFacts ==
    /\ stored' \in SUBSET stored
    /\ Published \cup (stored \cap {Before}) \subseteq stored'
    /\ UNCHANGED <<turn, shown>>

ShowFact(i) ==
    /\ i \notin DOMAIN shown
    /\ \E w \in (stored \ {Before}) \cup {NoFact} :
          /\ w # NoFact => \A q \in Published : q < w
          /\ shown' = [j \in DOMAIN shown \cup {i} |-> IF j = i THEN w ELSE shown[j]]
    /\ UNCHANGED <<turn, stored>>

HistoryNext == BeginRun \/ AddFact \/ DropFacts \/ \E i \in Snapshots : ShowFact(i)

HistoryStep == UNCHANGED historyVars \/ HistoryNext

HistorySpec == HistoryInit /\ [][HistoryNext]_historyVars

================================================================================
