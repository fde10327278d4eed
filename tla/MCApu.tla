-------------------------------- MODULE MCApu --------------------------------
(* Small instances of Apu for TLC. *)
EXTENDS Apu

CONSTANTS pulse1, pulse2, triangle, noise

\* Sequencer and mode; the DMC; length counters under every mode; notes; sweeps.  The
\* first two look closely at time, the others take a few instructions to a step.
EachGroup ==
  {[writes |-> {"mode"}, channels |-> {noise}, bases |-> {2}, extras |-> {0, 1, 4}],
   [writes |-> {"dmc"}, channels |-> {}, bases |-> {3}, extras |-> {0}],
   [writes |-> {"mode", "length"}, channels |-> {noise}, bases |-> {5}, extras |-> {0}]}
  \cup {[writes |-> {"length", "volume"}, channels |-> {c}, bases |-> {5}, extras |-> {0}] :
           c \in {noise, triangle}}
  \cup {[writes |-> {"sweep"}, channels |-> {c}, bases |-> {5}, extras |-> {0}] :
           c \in {pulse1, pulse2}}
AllModes == SUBSET {"inhibit", "five"}
=============================================================================
