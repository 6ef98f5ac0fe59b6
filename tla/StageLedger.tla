---- MODULE StageLedger ----
(***************************************************************************)
(* What the stage engine promises, without its statuses, retries, files or *)
(* command lines: a ledger of stages whose result is durably complete.     *)
(* Work on a stage starts only when its dependencies are in the ledger, an *)
(* entry is added only by finishing that work, and entries are given up    *)
(* only in dependency-closed groups (a fresh run, `--from`, a crash that   *)
(* loses the file), so nothing stays complete without what it was built    *)
(* from.                                                                   *)
(***************************************************************************)
EXTENDS Naturals

CONSTANTS
  N,        \* number of stages, numbered in pipeline order
  Deps      \* Deps[s]: the stages s depends on

VARIABLES
  done,     \* stages whose result is durably recorded as complete
  work      \* the stage being worked on, 0 when none is

ledgerVars == <<done, work>>

Closed(set) == \A s \in set : Deps[s] \subseteq set

LedgerInit == done = {} /\ work = 0

Begin(s) ==
  /\ work = 0
  /\ s \notin done
  /\ Deps[s] \subseteq done
  /\ work' = s
  /\ UNCHANGED done

Commit ==
  /\ work # 0
  /\ done' = done \cup {work}
  /\ work' = 0

GiveUp ==
  /\ done' \subseteq done
  /\ Closed(done')
  /\ work' = 0

LedgerNext == (\E s \in 1..N : Begin(s)) \/ Commit \/ GiveUp

LedgerSpec == LedgerInit /\ [][LedgerNext]_ledgerVars
====
