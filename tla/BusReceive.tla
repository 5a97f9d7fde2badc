----------------------------- MODULE BusReceive -----------------------------
(***************************************************************************)
(* The receiving callbacks of the bus, bus_process_receiving_data_callback *)
(* (bus.c, the client side) and busd_process_receiving_data_callback       *)
(* (busd.c, the daemon side): TCP chunks go into a Ring_Buffer kept with   *)
(* the connection, and complete frames are cut out of it and handled.      *)
(*                                                                         *)
(* A frame is a request header followed by a blob table that starts with   *)
(* its own length.  A byte is abstracted to its place: byte p of the f-th  *)
(* frame sent on this connection.  The request header is one byte (p = 1)  *)
(* and the table's length field one byte (p = 2); what a misplaced byte    *)
(* would say as a header or as a length is arbitrary.                      *)
(***************************************************************************)
EXTENDS RingBufferOps

CONSTANTS
    Sides,      \* whose callbacks to look at: a subset of {"bus", "busd"}
    RingSize,   \* BLOB_MAX_SIZE, the size of the cache
    ChunkMax,   \* WORKER_TASK_MAX_BUF_LEN, the longest recv
    TableLens,  \* the blob table lengths a peer sends
    Results,    \* whether a frame's handler succeeds: a subset of BOOLEAN
    MaxFrames   \* bound: frames sent per connection

ASSUME SidesAssumption == Sides \subseteq {"bus", "busd"}
ASSUME FramesAssumption ==
    /\ RingSize \in Nat \ {0} /\ ChunkMax \in Nat \ {0} /\ MaxFrames \in Nat
    /\ TableLens \subseteq Nat \ {0} /\ Results \subseteq BOOLEAN
    /\ \A n \in TableLens : n + 1 <= RingSize

VARIABLES
    side,       \* whose callback this is; never changes
    frames,     \* what the peer sent: the table length of each frame, and
                \* whether its handler will return an error
    wire,       \* bytes in flight, oldest first
    eof,        \* the peer has closed; nothing more will be sent
    cache,      \* task->cache, a ring or NoCache
    pc,         \* "wait": in select; "parse": in the callback's loop
    handled,    \* the frames handed to a handler, oldest first
    lost        \* bytes received and thrown away unhandled

rxVars == <<side, frames, wire, eof, cache, pc, handled, lost>>

NoCache == [size |-> 0]
Garbage == 0                  \* the "frame" of a misread header
Hdr     == 1                  \* sizeof(bus_reqhdr_t)
Attr    == 1                  \* sizeof(blob_attr_t), the table's length field

FrameBytes(f, len) == [p \in 1 .. (Hdr + len) |-> [f |-> f, p |-> p]]

RxInit ==
    /\ side \in Sides /\ frames = << >> /\ wire = << >> /\ eof = FALSE
    /\ cache = NoCache /\ pc = "wait" /\ handled = << >> /\ lost = 0

(***************************************************************************)
(* The peer.                                                               *)
(***************************************************************************)

Send(len, ok) ==
    /\ ~eof /\ Len(frames) < MaxFrames
    /\ frames' = Append(frames, [len |-> len, ok |-> ok])
    /\ wire'   = wire \o FrameBytes(Len(frames) + 1, len)
    /\ UNCHANGED <<side, eof, cache, pc, handled, lost>>

\* The peer closes or dies; the last k bytes never leave its host.
PeerClose(k) ==
    /\ ~eof
    /\ eof'  = TRUE
    /\ wire' = SubSeq(wire, 1, Len(wire) - k)
    /\ UNCHANGED <<side, frames, cache, pc, handled, lost>>

(***************************************************************************)
(* The callback.                                                           *)
(***************************************************************************)

DropCache == cache' = NoCache

CacheInUse == IF cache = NoCache THEN NewRing(RingSize) ELSE cache

\* A chunk arrives.  The result of rb->write is not looked at.
Receive(n) ==
    LET rb    == CacheInUse
        chunk == SubSeq(wire, 1, n)
    IN  /\ pc = "wait" /\ n <= Len(wire)
        /\ cache' = RingWrite(rb, chunk)
        /\ lost'  = lost + (n - WriteCount(rb, chunk))
        /\ wire'  = SubSeq(wire, n + 1, Len(wire))
        /\ pc'    = "parse"
        /\ UNCHANGED <<side, frames, eof, handled>>

\* recv returned 0: the cache goes, and the worker with its task is reused
\* for the next connection.
Closed ==
    /\ pc = "wait" /\ eof /\ wire = << >>
    /\ DropCache
    /\ frames' = << >> /\ eof' = FALSE /\ handled' = << >> /\ lost' = 0
    /\ UNCHANGED <<side, wire, pc>>

HeadByte   == PeekBytes(cache, Hdr)[1]
LengthByte == PeekBytes(cache, Hdr + Attr)[Hdr + Attr]

\* What blob_get_len makes of the length field.
TableLen == IF LengthByte.p = 2 THEN {frames[LengthByte.f].len} ELSE 0 .. RingSize

\* Less than the two headers, or less than the table: wait for more.
Incomplete ==
    /\ pc = "parse"
    /\ \/ GetLen(cache) < Hdr + Attr
       \/ /\ GetLen(cache) >= Hdr + Attr
          /\ \E t \in TableLen : GetLen(cache) - Hdr < t
    /\ pc' = "wait"
    /\ UNCHANGED <<side, frames, wire, eof, cache, handled, lost>>

\* The header check fails; only a misplaced byte can look like that.
BadHeader ==
    /\ pc = "parse" /\ GetLen(cache) >= Hdr + Attr
    /\ HeadByte.p # 1
    /\ lost' = lost + GetLen(cache)
    /\ DropCache
    /\ pc' = "wait"
    /\ UNCHANGED <<side, frames, wire, eof, handled>>

\* Mutant: only the table is read out, its header stays.
TableOnly(t) == t

\* How much of the cache a frame with a table of t bytes takes.
FrameLen(t) == Hdr + t

\* Mutant: one frame per chunk.
ReturnAtOnce(rest) == "wait"

\* do { ... } while (buffer_len > 0)
LoopAgain(rest) == IF GetLen(rest) > 0 THEN "parse" ELSE "wait"

\* A whole frame: read it out and call its handler.  An error from the
\* handler throws the rest of the cache away.
Handle ==
    /\ pc = "parse" /\ GetLen(cache) >= Hdr + Attr
    /\ \E t \in TableLen :
        LET f    == IF HeadByte.p = 1 THEN HeadByte.f ELSE Garbage
            rest == RingRead(cache, FrameLen(t))
            ok   == IF f = Garbage THEN BOOLEAN ELSE {frames[f].ok}
        IN  /\ GetLen(cache) - Hdr >= t
            /\ handled' = Append(handled, f)
            /\ \/ /\ FALSE \in ok
                  /\ lost' = lost + GetLen(rest)
                  /\ DropCache
                  /\ pc' = "wait"
               \/ /\ TRUE \in ok
                  /\ pc' = LoopAgain(rest)
                  /\ IF GetLen(rest) = 0 /\ side = "bus" THEN DropCache ELSE cache' = rest
                  /\ UNCHANGED lost
    /\ UNCHANGED <<side, frames, wire, eof>>

RxNext ==
    \/ \E len \in TableLens, ok \in Results : Send(len, ok)
    \/ \E k \in 0 .. Len(wire) : PeerClose(k)
    \/ \E n \in 1 .. ChunkMax : Receive(n)
    \/ Closed \/ Incomplete \/ BadHeader \/ Handle

\* The event loop keeps running its callbacks: a readable connection is
\* received from, and a callback that was entered runs to its end.
Fairness ==
    /\ WF_rxVars(\E n \in 1 .. ChunkMax : Receive(n))
    /\ WF_rxVars(Closed)
    /\ WF_rxVars(Incomplete \/ BadHeader \/ Handle)

RxSpec     == RxInit /\ [][RxNext]_rxVars
FairSpec == RxSpec /\ Fairness

-----------------------------------------------------------------------------
Held == IF cache = NoCache THEN << >> ELSE Contents(cache)

\* Type invariant: the cache is absent or a ring of the configured size, and
\* the frames handled were sent or are misread ones.
RxTypeOK ==
    /\ side \in Sides /\ frames \in Seq([len : TableLens, ok : BOOLEAN])
    /\ eof \in BOOLEAN /\ pc \in {"wait", "parse"} /\ lost \in Nat
    /\ cache = NoCache \/ cache.size = RingSize
    /\ handled \in Seq(0 .. Len(frames))

\* A frame is handled at most once and frames are handled in the order they
\* were sent, with no gap, until bytes have been thrown away: chunk
\* boundaries, wrap-around and a cache dropped early never show.
InOrder == lost = 0 => \A i \in 1 .. Len(handled) : handled[i] = i

\* The cache holds exactly the received bytes that no handler has had: what
\* it holds and what is still on the wire continue where the last handled
\* frame ended.  This is what makes the next header land on a header.
CacheAligned ==
    lost = 0 /\ Held \o wire # << >> =>
        /\ Head(Held \o wire) = [f |-> Len(handled) + 1, p |-> 1]
        /\ \A i \in 1 .. (Len(Held \o wire) - 1) :
              LET b == (Held \o wire)[i]
                  c == (Held \o wire)[i + 1]
              IN  IF b.p < Hdr + frames[b.f].len THEN c = [b EXCEPT !.p = @ + 1]
                  ELSE c = [f |-> b.f + 1, p |-> 1]

\* Until bytes have been thrown away, frames are handled once each, in order,
\* and every path out of the callback leaves the cache at a frame boundary of
\* what is still to come; types included.
StreamInStep == RxTypeOK /\ InOrder /\ CacheAligned

\* Every frame sent reaches its handler, unless the peer closes first or
\* bytes of the connection have been thrown away.
EveryFrameHandled ==
    \A n \in 1 .. MaxFrames :
        (Len(frames) = n) ~> (Len(handled) >= n \/ eof \/ lost > 0)
=============================================================================
