-------------------------------- MODULE Pipe --------------------------------
(***************************************************************************)
(* What a one-way data path of the proxy promises, whatever tasks, queues  *)
(* and buffers it is built from: every channel c delivers the chunks that  *)
(* were handed to it, in the order in which they were handed over, each of *)
(* them at most once, and nothing else.  A channel may stop delivering at  *)
(* any moment (timeouts, resets and errors truncate a stream), but it      *)
(* never skips, repeats, reorders or invents a chunk.                      *)
(***************************************************************************)
EXTENDS Naturals, Sequences

CONSTANTS Chans,    \* the channels
          Data      \* the chunks that can be handed to a channel

VARIABLES sent,     \* sent[c]: the chunks handed to channel c so far
          got       \* got[c]: the chunks channel c has delivered so far

pipeVars == <<sent, got>>

Init == /\ sent = [c \in Chans |-> <<>>]
        /\ got  = [c \in Chans |-> <<>>]

Accept(c, d) ==
    /\ sent' = [sent EXCEPT ![c] = Append(@, d)]
    /\ UNCHANGED got

Deliver(c) ==
    /\ Len(got[c]) < Len(sent[c])
    /\ got' = [got EXCEPT ![c] = Append(@, sent[c][Len(got[c]) + 1])]
    /\ UNCHANGED sent

Next == \E c \in Chans : Deliver(c) \/ \E d \in Data : Accept(c, d)

Spec == Init /\ [][Next]_pipeVars
=============================================================================
