-------------------------------- MODULE Buffer --------------------------------
(***************************************************************************)
(* The buffers of a connection.  A buffer is [bytes, seek]: what lies      *)
(* between start and last, and how much of it has been accessed.           *)
(***************************************************************************)
EXTENDS Naturals, Sequences

CONSTANT Cap   \* CONN_BUFFER_SIZE; also the limit, so that buffers never grow

ASSUME CapAssumption == Cap \in Nat \ {0}

Cleared == [bytes |-> <<>>, seek |-> 0]   \* lts_create_buffer, lts_buffer_clear

IsEmpty(b) == b.bytes = <<>>
Full(b)    == Len(b.bytes) = Cap
Space(b)   == Cap - Len(b.bytes)
Pending(b) == SubSeq(b.bytes, b.seek + 1, Len(b.bytes))

\* The callers see to it that there is room.
lts_buffer_append(b, data) == [b EXCEPT !.bytes = @ \o data]

\* lts_buffer_drop_accessed moves as many bytes to the front as were accessed,
\* and not as many as are pending.
lts_buffer_drop_accessed(b) ==
  [bytes |-> [i \in 1 .. Len(b.bytes) - b.seek |->
                IF i <= b.seek THEN b.bytes[i + b.seek] ELSE b.bytes[i]],
   seek |-> 0]
=============================================================================
