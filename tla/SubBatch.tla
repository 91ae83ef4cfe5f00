------------------------------ MODULE SubBatch ------------------------------
(***************************************************************************)
(* The sub-batch sizing of an LND node (calculate_sub_batch_size in        *)
(* node/lnd.rs).  Durations are in milliseconds, as in the configuration;  *)
(* the code divides whole seconds.                                         *)
(***************************************************************************)
EXTENDS Integers

Seconds(ms) == ms \div 1000

CeilDiv(a, b) == (a + b - 1) \div b

\* Mutated form: the division rounds down.
MutCalculateFloor(total, sub, minimum, batch) ==
  IF sub >= total THEN batch
  ELSE LET computed == (batch * Seconds(sub)) \div Seconds(total)
       IN  IF computed > minimum THEN computed ELSE minimum

\* The size of the chunks of a batch that is to be sent within total, one
\* chunk every sub.
CalculateSubBatchSize(total, sub, minimum, batch) ==
  IF sub >= total THEN batch
  ELSE LET computed == CeilDiv(batch * Seconds(sub), Seconds(total))
       IN  IF computed > minimum THEN computed ELSE minimum

\* The code divides by the whole seconds of total when it comes to it.
Divides(total, sub) == sub >= total \/ Seconds(total) > 0

Chunks(size, batch) == CeilDiv(batch, size)

=============================================================================
