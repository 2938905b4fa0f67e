----------------------------- MODULE FrameStream -----------------------------
(***************************************************************************)
(* What AirDump promises to whoever reads main.py's list: over one         *)
(* connection frames of two bytes are sent, their bytes are listed in      *)
(* order and once each, and the connection can be lost, after which        *)
(* nothing new is sent but bytes already sent may still be listed.         *)
(***************************************************************************)
EXTENDS Naturals, Sequences

VARIABLES link,    \* "fresh", "open" or "lost"; a connection opens once
          sent,    \* the frames sent over this connection
          got      \* the bytes listed

streamVars == <<link, sent, got>>

Frame == (0..255) \X (0..255)

\* The k-th byte of a sequence of frames.
ByteOf(fs, k) == fs[(k + 1) \div 2][2 - (k % 2)]

StreamInit == link = "fresh" /\ sent = <<>> /\ got = <<>>

\* The connection opens; the board may have frames waiting for it.
Open == /\ link = "fresh"
        /\ link' = "open"
        /\ sent' \in Seq(Frame)
        /\ UNCHANGED got

Send == /\ link = "open"
        /\ sent' \in Seq(Frame)
        /\ Len(sent') = Len(sent) + 1
        /\ \A i \in 1..Len(sent) : sent'[i] = sent[i]
        /\ UNCHANGED <<link, got>>

\* The next byte is listed, never another one.
List == /\ link # "fresh"
        /\ Len(got) < 2 * Len(sent)
        /\ got' = Append(got, ByteOf(sent, Len(got) + 1))
        /\ UNCHANGED <<link, sent>>

Lose == /\ link = "open"
        /\ link' = "lost"
        /\ UNCHANGED <<sent, got>>

\* main.py is run again: a new connection and an empty list.
Renew == /\ link' = "fresh"
         /\ sent' = <<>>
         /\ got' = <<>>

StreamNext == Open \/ Send \/ List \/ Lose \/ Renew

StreamSpec == StreamInit /\ [][StreamNext]_streamVars

\* While the connection is up a byte that was sent is listed in the end.
ListOpen == link = "open" /\ List

FairStream == StreamSpec /\ WF_streamVars(ListOpen)
=============================================================================
