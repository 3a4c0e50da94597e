------------------------------ MODULE MCChannel ------------------------------
(* Instances of Channel for TLC: who may do what. *)
EXTENDS Channel

CONSTANTS a, b, c

AllMethods == {"send", "send_block", "try_send", "receive", "try_receive"}

Program(pa, pb, pc_) == [t \in {a, b, c} |-> CASE t = a -> pa [] t = b -> pb [] t = c -> pc_]

\* Programs in which no wait for a condition is interrupted while a block runs.
\* In the first one nothing is ever interrupted.  The next two have deadlines and
\* cancellation but no blocks.  In the last two calls are interrupted while they
\* wait for the monitor, and the sender with the block is the only one that may be
\* canceled while it waits for a condition.
Sound ==
  {Program({"send_block", "try_send"}, {"send", "receive"}, {"receive", "try_receive", "exit"}),
   Program({"send", "cancel", "exit"}, {"receive", "timeout", "exit"},
           {"receive", "critical", "exit"}),
   Program({"send", "exit"}, {"receive", "timeout"}, {"receive", "critical", "timeout"}),
   Program({"send_block"}, {"try_send", "timeout"}, {"receive"}),
   Program({"send_block"}, {"try_send"}, {"receive", "cancel"})}

\* A receiver with a deadline next to senders whose blocks give up control.
Interrupting == {Program({"send_block"}, {"send_block"}, {"receive", "timeout"})}
==============================================================================
