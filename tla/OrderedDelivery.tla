-------------------------- MODULE OrderedDelivery --------------------------
(* What the pipeline's output side promises its viewers, whatever the number
   of worker threads and however they are scheduled: a frontier walks through
   the chunk numbers one by one, and the chunk at the frontier is either handed
   to the sink or given up for good. Nothing is ever delivered behind the
   frontier, so a player never sees a chunk twice or an older one after a
   newer one. ThreadParallel and SerialStrategies implement this
   specification. *)
EXTENDS Naturals, Sequences

VARIABLES
    frontier,   \* the next chunk number that may be delivered
    delivered   \* the chunks handed to the sink, oldest first

odvars == <<frontier, delivered>>

Init == frontier = 0 /\ delivered = <<>>

Deliver ==
    /\ delivered' = Append(delivered, frontier)
    /\ frontier' = frontier + 1

GiveUp ==
    /\ frontier' = frontier + 1
    /\ UNCHANGED delivered

Next == Deliver \/ GiveUp

Spec == Init /\ [][Next]_odvars
=============================================================================
