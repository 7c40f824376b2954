--------------------------- MODULE EvBufferStream ---------------------------
(***************************************************************************)
(* What an evbuffer promises (include/event2/buffer.h, spec 4.4): a byte  *)
(* queue with a length.  Bytes are appended at the end (add, read,        *)
(* commit_space, add_reference), put back at the front (prepend), taken   *)
(* from the front (drain, remove, write), or moved whole or in part from  *)
(* the front of one buffer to the end or front of another (add_buffer,    *)
(* remove_buffer, prepend_buffer).  No byte is lost, duplicated or         *)
(* reordered, and the length is always the number of bytes held.  Bytes   *)
(* are numbered as they are written: written counts them, and the bytes   *)
(* a step adds are exactly the next ones.  Bytes leave a buffer only to   *)
(* another buffer or to the caller of a call that takes them (drain,      *)
(* remove, write): taking is TRUE after such a call.                       *)
(***************************************************************************)
EXTENDS Naturals, Sequences

CONSTANTS Bufs

VARIABLES content, length, written, taking

vars == <<content, length, written, taking>>

Init == /\ content = [b \in Bufs |-> <<>>] /\ length = [b \in Bufs |-> 0]
        /\ written = 0 /\ taking = FALSE

(* The bytes written by this step. *)
NewBytes == [i \in 1 .. written' - written |-> written + i]

Consistent == length' = [b \in Bufs |-> Len(content'[b])]

(* Bytes appended at the end of b. *)
AddToEnd(b) ==
  /\ written' > written
  /\ content'[b] = content[b] \o NewBytes
  /\ \A o \in Bufs \ {b} : content'[o] = content[o]
  /\ Consistent

(* Bytes put in front of b. *)
AddToFront(b) ==
  /\ written' > written
  /\ content'[b] = NewBytes \o content[b]
  /\ \A o \in Bufs \ {b} : content'[o] = content[o]
  /\ Consistent

(* The first n bytes of b are consumed. *)
Consume(b) ==
  /\ taking' /\ UNCHANGED written
  /\ \E n \in 0 .. Len(content[b]) :
        content'[b] = SubSeq(content[b], n + 1, Len(content[b]))
  /\ \A o \in Bufs \ {b} : content'[o] = content[o]
  /\ Consistent

(* The first n bytes of src move to the end of dst. *)
MoveToEnd(src, dst) ==
  /\ src # dst /\ UNCHANGED written
  /\ \E n \in 0 .. Len(content[src]) :
        /\ content'[src] = SubSeq(content[src], n + 1, Len(content[src]))
        /\ content'[dst] = content[dst] \o SubSeq(content[src], 1, n)
  /\ \A o \in Bufs \ {src, dst} : content'[o] = content[o]
  /\ Consistent

(* All of src moves in front of dst. *)
MoveToFront(src, dst) ==
  /\ src # dst /\ UNCHANGED written
  /\ content'[src] = <<>>
  /\ content'[dst] = content[src] \o content[dst]
  /\ \A o \in Bufs \ {src, dst} : content'[o] = content[o]
  /\ Consistent

(* A call that moves no byte. *)
Idle == UNCHANGED <<content, length, written>>

Next ==
  \/ Idle
  \/ \E b, d \in Bufs :
        \/ AddToEnd(b) \/ AddToFront(b) \/ Consume(b)
        \/ MoveToEnd(b, d) \/ MoveToFront(b, d)

Spec == Init /\ [][Next]_vars

====
