---------------------------- MODULE DiagnosticLog ----------------------------
(***************************************************************************)
(* What the diagnostic logger promises its wrapper: the samples of a       *)
(* session reach the log in the order they were submitted, through a       *)
(* buffer that holds at most Limit of them and forgets the oldest when it  *)
(* is full.  A session that closes has written everything left in the      *)
(* buffer, or, when its file cannot be opened, nothing at all.             *)
(***************************************************************************)
EXTENDS Naturals, Sequences

CONSTANTS Sample,  \* what may be submitted
          Limit    \* capacity of the buffer, at least 1

VARIABLES open,    \* a session is open
          buffer,  \* submitted and not yet on its way to the file
          log      \* what the session has written

logVars == <<open, buffer, log>>

Init ==
    /\ open = FALSE
    /\ buffer = <<>>
    /\ log = <<>>

Begin ==
    /\ ~open
    /\ open' = TRUE
    /\ buffer' = <<>>
    /\ log' = <<>>

Submit(s) ==
    /\ open
    /\ buffer' = Append(IF Len(buffer) < Limit THEN buffer ELSE Tail(buffer), s)
    /\ UNCHANGED <<open, log>>

Write ==
    /\ open /\ buffer # <<>>
    /\ log' = Append(log, Head(buffer))
    /\ buffer' = Tail(buffer)
    /\ UNCHANGED open

Close ==
    /\ open
    /\ buffer = <<>> \/ log = <<>>
    /\ open' = FALSE
    /\ buffer' = <<>>
    /\ UNCHANGED log

Next == Begin \/ (\E s \in Sample : Submit(s)) \/ Write \/ Close

Spec == Init /\ [][Next]_logVars
=============================================================================
