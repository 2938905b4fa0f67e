---------------------------- MODULE ClientStream ----------------------------
(***************************************************************************)
(* What a connection of BSSL_SSL_Client promises: two streams of bytes,    *)
(* in each of which the bytes come in order, none of them twice and none   *)
(* left out from within.  Either may stop short: received bytes that are   *)
(* not read yet are dropped behind every write, and the connection can go  *)
(* at any time.  The peer can end both with its close_notify, which is     *)
(* answered behind all that was written, by the last bytes the peer gets.  *)
(***************************************************************************)
EXTENDS Naturals, Sequences

VARIABLES open,      \* between connectSSL() and stop()
          put,       \* how many bytes write() has taken
          sent,      \* those that are out, in whole records
          given,     \* how many bytes the peer has sent
          got,       \* those that read() has returned
          ended,     \* the peer's close_notify has come
          answered   \* ours is out

streamVars == <<open, put, sent, given, got, ended, answered>>

\* The bytes of a stream are numbered from 1 on.
Upto(n) == [k \in 1 .. n |-> k]

StreamInit == /\ open = FALSE /\ ended = FALSE /\ answered = FALSE
              /\ put = 0 /\ sent = <<>> /\ given = 0 /\ got = <<>>

Opens == /\ ~open /\ open' = TRUE
         /\ ended' = FALSE /\ answered' = FALSE
         /\ put' = 0 /\ sent' = <<>> /\ given' = 0 /\ got' = <<>>

Writes == /\ open /\ ~ended
          /\ put' \in Nat /\ put' > put
          /\ UNCHANGED <<open, sent, given, got, ended, answered>>

\* A record goes out with the next bytes of what was written, never others.
Sends == /\ open /\ ~answered
         /\ \E n \in Len(sent) .. put : sent' = Upto(n)
         /\ UNCHANGED <<open, put, given, got, ended, answered>>

Gives == /\ open
         /\ given' \in Nat /\ given' > given
         /\ UNCHANGED <<open, put, sent, got, ended, answered>>

\* read() returns the next bytes of what the peer has given, and none once the
\* peer has ended.
Reads == /\ open /\ ~ended
         /\ \E n \in Len(got) .. given : got' = Upto(n)
         /\ UNCHANGED <<open, put, sent, given, ended, answered>>

Ends == /\ open /\ ~ended /\ ended' = TRUE
        /\ UNCHANGED <<open, put, sent, given, got, answered>>

\* stop() sends no close_notify: there is one only as an answer.
Answers == /\ open /\ ended /\ ~answered /\ Len(sent) = put
           /\ answered' = TRUE
           /\ UNCHANGED <<open, put, sent, given, got, ended>>

Stops == /\ open /\ open' = FALSE /\ ended' = FALSE
         /\ UNCHANGED <<put, sent, given, got, answered>>

StreamNext ==
    Opens \/ Writes \/ Sends \/ Gives \/ Reads \/ Ends \/ Answers \/ Stops

StreamSpec == StreamInit /\ [][StreamNext]_streamVars
=============================================================================
