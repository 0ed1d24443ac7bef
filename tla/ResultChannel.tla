---------------------------- MODULE ResultChannel ----------------------------
(***************************************************************************)
(* What the processes of a run may expect of the channel their results     *)
(* take to the parent, however it is built: each result is received at     *)
(* most once, only after it was sent, and never after it was lost.         *)
(***************************************************************************)
EXTENDS Sequences, SequencesExt

CONSTANT Sender         \* the processes that report

VARIABLES sent,         \* the senders whose result is under way
          lost,         \* the senders whose result will never come
          got           \* the results received, in order

channelVars == <<sent, lost, got>>

ChannelInit == sent = {} /\ lost = {} /\ got = <<>>

Send(w) == /\ w \notin sent \cup lost \cup ToSet(got)
           /\ sent' = sent \cup {w}
           /\ UNCHANGED <<lost, got>>

Receive(w) == /\ w \in sent
              /\ sent' = sent \ {w}
              /\ got' = Append(got, w)
              /\ UNCHANGED lost

\* Senders die and take along what has not left them.
Lose(S) == /\ S \cap ToSet(got) = {}
           /\ sent' = sent \ S
           /\ lost' = lost \cup S
           /\ UNCHANGED got

ChannelNext == \/ \E w \in Sender : Send(w) \/ Receive(w)
               \/ \E S \in SUBSET Sender : Lose(S)

ChannelSpec == ChannelInit /\ [][ChannelNext]_channelVars
=============================================================================
