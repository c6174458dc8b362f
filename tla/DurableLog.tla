------------------------------- MODULE DurableLog -------------------------------
(***************************************************************************)
(* What recording promises its user, without files, buffers or syncs: each *)
(* session is a log of points that grows one point at a time while the     *)
(* session is open, of which a prefix is safe.  Only a power cut loses     *)
(* points, only the newest ones, and never a safe one.                     *)
(***************************************************************************)
EXTENDS Integers, Sequences

CONSTANTS LogSessions, LogPoints, Closed

VARIABLES
  live,  \* sessions that have a log
  log,   \* the points of each session, oldest first
  safe,  \* how many of them are safe
  writing  \* the session being written, or Closed

logVars == <<live, log, safe, writing>>

\* More of the log of s may have become safe.
Safer(s) == \E n \in safe[s]..Len(log'[s]) : safe' = [safe EXCEPT ![s] = n]

Begin(s) ==
  /\ writing = Closed /\ s \notin live
  /\ live' = live \cup {s}
  /\ writing' \in {s, Closed}
  /\ UNCHANGED <<log, safe>>

Reopen(s) == writing = Closed /\ s \in live /\ writing' = s /\ UNCHANGED <<live, log, safe>>

Put(p) ==
  /\ writing # Closed
  /\ log' = [log EXCEPT ![writing] = Append(@, p)]
  /\ Safer(writing)
  /\ UNCHANGED <<live, writing>>

End ==
  /\ writing # Closed /\ writing' = Closed
  /\ UNCHANGED <<live, log>>
  /\ Safer(writing)

\* Deleting logs ends the session being written.
Remove(gone) ==
  /\ gone \subseteq live /\ live' = live \ gone
  /\ writing' \in {writing, Closed} /\ writing' \notin gone
  /\ log' = [s \in LogSessions |-> IF s \in gone THEN <<>> ELSE log[s]]
  /\ safe' \in [LogSessions -> Nat]
  /\ \A s \in LogSessions : IF s \in gone THEN safe'[s] = 0
                            ELSE safe[s] <= safe'[s] /\ safe'[s] <= Len(log[s])

Lose ==
  /\ writing' = Closed
  /\ live' \subseteq live
  /\ \A s \in live \ live' : safe[s] = 0
  /\ log' \in [LogSessions -> Seq(LogPoints)]
  /\ safe' = [s \in LogSessions |-> Len(log'[s])]
  /\ \A s \in LogSessions :
       /\ safe[s] <= Len(log'[s]) /\ Len(log'[s]) <= Len(log[s])
       /\ log'[s] = SubSeq(log[s], 1, Len(log'[s]))

LogInit ==
  /\ live = {} /\ writing = Closed
  /\ log = [s \in LogSessions |-> <<>>]
  /\ safe = [s \in LogSessions |-> 0]

LogNext ==
  \/ \E s \in LogSessions : Begin(s) \/ Reopen(s)
  \/ \E p \in LogPoints : Put(p)
  \/ End
  \/ \E gone \in SUBSET LogSessions : Remove(gone)
  \/ Lose

LogSpec == LogInit /\ [][LogNext]_logVars
=============================================================================
