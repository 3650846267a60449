---------------------------- MODULE BindBuffers ------------------------------
(***************************************************************************)
(* Parameters bound as streams: the BindStream objects of SQLiteStatement, *)
(* the pool of direct buffers of SQLiteConnection, and the native memory   *)
(* of a buffer (sqlite3_wrap_manual.c), which Java, the wrapper and SQLite *)
(* share. The first byte of it counts the users: the stream that fills the *)
(* buffer and the parameter that is bound to it. The second one asks the   *)
(* last user to free it.                                                   *)
(*                                                                         *)
(* SQLite is handed a pointer and a destructor, bind_release(), which it   *)
(* calls when the parameter is bound anew, cleared or finalized, and when  *)
(* it refuses the binding. All calls come from the confining thread.       *)
(***************************************************************************)
EXTENDS Integers, FiniteSets

CONSTANTS
  Buffers,        (* addresses of buffers                                  *)
  Streams,        (* bind streams that are not disposed of                 *)
  Stmts,          (* compiled statements                                   *)
  Params,         (* parameters of a statement                             *)
  Sizes,          (* the sizes the loop of allocateBuffer() stops at       *)
  Requests,       (* the sizes users estimate                              *)
  MAX_POOLED_DIRECT_BUFFER_SIZE,
  NoBuffer, NoStream, NoStmt

CONTROL_BYTES == 2

(* Sizes bounds a buffer: a request above the largest one is not made.     *)
ASSUME BindBuffersAssumption ==
  /\ Sizes \subseteq Nat /\ \A n \in Sizes : n >= 1024
  /\ Requests \subseteq Nat
  /\ MAX_POOLED_DIRECT_BUFFER_SIZE \in Nat
  /\ NoBuffer \notin Buffers /\ NoStmt \notin Stmts
  /\ NoStream \notin [stmt : Stmts, param : Params, buffer : Buffers]

VARIABLES
  memory,         (* of a buffer: its size and its two control bytes       *)
  myBuffers,      (* the pool                                              *)
  myBuffersTotalSize,
  stream,         (* the streams of myBindStreams of all statements        *)
  bound,          (* the parameters of a compiled statement                *)
  ready,          (* eVdbeState = VDBE_READY_STATE                         *)
  state,          (* of a compiled statement: none, open or cached         *)
  myStepped, myHasBindings,
  stepping,       (* the statement in prepareStep()                        *)
  phase           (* of the connection                                     *)

poolVars == <<myBuffers, myBuffersTotalSize>>
stmtVars == <<ready, state, myStepped, myHasBindings>>
vars == <<memory, poolVars, stream, bound, stmtVars, stepping, phase>>
Idle == phase = "open" /\ stepping = NoStmt

(* What is free has size 0.                                                *)
Free == [size |-> 0, used |-> 0, pending |-> FALSE]
Cell == [size : Sizes \union {0}, used : 0 .. 255, pending : BOOLEAN]
Stream == [stmt : Stmts, param : Params, buffer : Buffers]
Capacity(b) == memory[b].size - CONTROL_BYTES

TypeOK ==
  /\ memory \in [Buffers -> Cell]
  /\ myBuffers \subseteq Buffers
  /\ myBuffersTotalSize \in Int
  /\ stream \in [Streams -> Stream \union {NoStream}]
  /\ bound \in [Stmts -> [Params -> Buffers \union {NoBuffer}]]
  /\ ready \in [Stmts -> BOOLEAN]
  /\ state \in [Stmts -> {"none", "open", "cached"}]
  /\ myStepped \in [Stmts -> BOOLEAN]
  /\ myHasBindings \in [Stmts -> BOOLEAN]
  /\ stepping \in Stmts \union {NoStmt}
  /\ phase \in {"open", "closing", "closed"}

Init ==
  /\ memory = [b \in Buffers |-> Free]
  /\ myBuffers = {} /\ myBuffersTotalSize = 0
  /\ stream = [k \in Streams |-> NoStream]
  /\ bound = [s \in Stmts |-> [p \in Params |-> NoBuffer]]
  /\ ready = [s \in Stmts |-> TRUE]
  /\ state = [s \in Stmts |-> "none"]
  /\ myStepped = [s \in Stmts |-> FALSE]
  /\ myHasBindings = [s \in Stmts |-> FALSE]
  /\ stepping = NoStmt
  /\ phase = "open"

-----------------------------------------------------------------------------
(* What is done to the memory of a buffer. The count is a byte: Java's     *)
(* and C's, and only the wrapper's own decrement is not guarded.           *)

IncUsed(c) == [c EXCEPT !.used = (c.used + 1) % 256]
DecUsed(c) == IF c.used > 0 THEN [c EXCEPT !.used = c.used - 1] ELSE c

WrapperFree_AtOnce(c) == Free             \* mutation: does not ask if used

(* wrapper_free()                                                          *)
WrapperFree(c) == IF c.used = 0 THEN Free ELSE [c EXCEPT !.pending = TRUE]

(* bind_release()                                                          *)
BindRelease(c) == IF c.pending THEN Free ELSE DecUsed(c)

(* The end of wrapper_bind_buffer() when sqlite3_bind_blob() refused: it   *)
(* has called bind_release() by then.                                      *)
Refused(c) == [c EXCEPT !.used = (c.used + 255) % 256]

(* SQLiteConnection.freeBuffer()                                           *)
FreeBuffer(c, cached) == IF cached THEN DecUsed(c) ELSE WrapperFree(DecUsed(c))

(* Several buffers, one after the other.                                   *)
ReleaseAll(m, S) == [b \in Buffers |-> IF b \in S THEN BindRelease(m[b]) ELSE m[b]]
FreeAll(m, S) == [b \in Buffers |-> IF b \in S THEN FreeBuffer(m[b], b \in myBuffers) ELSE m[b]]

-----------------------------------------------------------------------------
StreamsOf(s) == {k \in Streams : stream[k] # NoStream /\ stream[k].stmt = s}
Streamed(s) == {stream[k].buffer : k \in StreamsOf(s)}
BoundIn(s) == {bound[s][p] : p \in Params} \ {NoBuffer}

(* clearBindStreams(false)                                                 *)
WithoutStreams(s) == [k \in Streams |-> IF k \in StreamsOf(s) THEN NoStream ELSE stream[k]]

Unbound(s) == [bound EXCEPT ![s] = [p \in Params |-> NoBuffer]]

(* SQLiteConnection.prepare(): the cached handle or a new one.             *)
Prepare(s) ==
  /\ Idle
  /\ state[s] # "open"
  /\ state' = [state EXCEPT ![s] = "open"]
  /\ myStepped' = [myStepped EXCEPT ![s] = FALSE]
  /\ myHasBindings' = [myHasBindings EXCEPT ![s] = FALSE]
  /\ UNCHANGED <<memory, poolVars, stream, bound, ready, stepping, phase>>

(* allocateBuffer(). The pool is sorted by size and its invalid buffers    *)
(* are dropped: none ever is. Which of the smallest sufficient ones is     *)
(* taken makes no difference.                                              *)
SizeFor(minimum) == {n \in Sizes : n >= minimum + CONTROL_BYTES
                       /\ \A m \in Sizes : m >= minimum + CONTROL_BYTES => n <= m}

Usable_Bound(b, n) ==           \* mutation: asks only whether a stream has it
  b \in myBuffers /\ memory[b].size >= n
    /\ \A k \in Streams : stream[k] # NoStream => stream[k].buffer # b

Usable(b, n) == b \in myBuffers /\ memory[b].size >= n /\ memory[b].used = 0

Reuse(n, b) ==
  /\ Usable(b, n)
  /\ \A c \in Buffers : Usable(c, n) => memory[b].size <= memory[c].size
  /\ UNCHANGED poolVars

Allocate(n, b) ==
  /\ \A c \in Buffers : ~Usable(c, n)
  /\ memory[b].size = 0
  /\ IF myBuffersTotalSize + n < MAX_POOLED_DIRECT_BUFFER_SIZE
     THEN /\ myBuffers' = myBuffers \union {b}
          /\ myBuffersTotalSize' = myBuffersTotalSize + n - CONTROL_BYTES
     ELSE UNCHANGED poolVars

(* The memory of a buffer that was reused or allocated.                    *)
Obtained(n, b) ==
  IncUsed(IF memory[b].size = 0 THEN [Free EXCEPT !.size = n] ELSE memory[b])

(* bindStream(). If there is no memory nothing changes.                    *)
BindStream(s, p, k, request) ==
  /\ Idle
  /\ state[s] = "open"
  /\ stream[k] = NoStream
  /\ \E n \in SizeFor(request), b \in Buffers :
       /\ Reuse(n, b) \/ Allocate(n, b)
       /\ memory' = [memory EXCEPT ![b] = Obtained(n, b)]
       /\ stream' = [stream EXCEPT ![k] = [stmt |-> s, param |-> p, buffer |-> b]]
  /\ myHasBindings' = [myHasBindings EXCEPT ![s] = TRUE]
  /\ UNCHANGED <<bound, ready, state, myStepped, stepping, phase>>

(* BindStream.write() of one byte more than the buffer holds: the stream   *)
(* gets another buffer. Writing what fits changes nothing here.            *)
Write(k) ==
  /\ Idle
  /\ stream[k] # NoStream
  /\ LET old == stream[k].buffer IN
     \E n \in SizeFor(Capacity(old) + 1), b \in Buffers :
       /\ Reuse(n, b) \/ Allocate(n, b)
       /\ memory' = [memory EXCEPT ![b] = Obtained(n, b),
                                   ![old] = FreeBuffer(memory[old], old \in myBuffers)]
       /\ stream' = [stream EXCEPT ![k].buffer = b]
  /\ UNCHANGED <<bound, stmtVars, stepping, phase>>

(* There is no memory for it: the stream is disposed of.                   *)
WriteFails(k) ==
  /\ Idle
  /\ stream[k] # NoStream
  /\ memory' = FreeAll(memory, {stream[k].buffer})
  /\ stream' = [stream EXCEPT ![k] = NoStream]
  /\ UNCHANGED <<poolVars, bound, stmtVars, stepping, phase>>

(* BindStream.close(), in which bindText() binds the buffer: vdbeUnbind()  *)
(* has released the old value before.                                      *)
Bound(k) ==
  LET s == stream[k].stmt  p == stream[k].param  b == stream[k].buffer
      used == [memory EXCEPT ![b] = IncUsed(memory[b])] IN
  /\ ready[s]
  /\ memory' = FreeAll(ReleaseAll(used, {bound[s][p]}), {b})
  /\ bound' = [bound EXCEPT ![s][p] = b]

(* The value is longer than SQLITE_LIMIT_LENGTH: the old one is gone.      *)
TooBig(k) ==
  LET s == stream[k].stmt  p == stream[k].param  b == stream[k].buffer
      used == [memory EXCEPT ![b] = IncUsed(memory[b])]
      released == ReleaseAll(ReleaseAll(used, {bound[s][p]}), {b}) IN
  /\ ready[s]
  /\ memory' = FreeAll([released EXCEPT ![b] = Refused(released[b])], {b})
  /\ bound' = [bound EXCEPT ![s][p] = NoBuffer]

NotBound_NotReleased(k) ==      \* mutation: SQLite does not call bind_release()
  LET b == stream[k].buffer IN
  /\ memory' = FreeAll([memory EXCEPT ![b] = IncUsed(memory[b])], {b})
  /\ UNCHANGED bound

(* SQLITE_MISUSE, the statement runs, or SQLITE_RANGE, no such parameter.  *)
NotBound(k) ==
  LET b == stream[k].buffer
      released == BindRelease(IncUsed(memory[b])) IN
  /\ memory' = FreeAll([memory EXCEPT ![b] = Refused(released)], {b})
  /\ UNCHANGED bound

CloseStream(k) ==
  /\ stream[k] # NoStream
  /\ Bound(k) \/ TooBig(k) \/ NotBound(k)
  /\ stream' = [stream EXCEPT ![k] = NoStream]

(* Closed by the user.                                                     *)
Close(k) ==
  /\ Idle
  /\ CloseStream(k)
  /\ UNCHANGED <<poolVars, stmtVars, stepping, phase>>

(* The other bind methods; bindNull() does not set myHasBindings.          *)
BindValue(s, p, isNull) ==
  /\ Idle
  /\ state[s] = "open"
  /\ ready[s]
  /\ memory' = ReleaseAll(memory, {bound[s][p]})
  /\ bound' = [bound EXCEPT ![s][p] = NoBuffer]
  /\ myHasBindings' = [myHasBindings EXCEPT ![s] = @ \/ ~isNull]
  /\ UNCHANGED <<poolVars, stream, ready, state, myStepped, stepping, phase>>

-----------------------------------------------------------------------------
(* step() and the load methods: prepareStep() closes the streams that are  *)
(* open, in the order they were opened, and ignores what goes wrong.       *)
PrepareStep(s) ==
  /\ Idle
  /\ state[s] = "open"
  /\ stepping' = s
  /\ UNCHANGED <<memory, poolVars, stream, bound, stmtVars, phase>>

CloseUnclosed(k) ==
  /\ stream[k] # NoStream
  /\ stepping = stream[k].stmt
  /\ CloseStream(k)
  /\ UNCHANGED <<poolVars, stmtVars, stepping, phase>>

(* sqlite3_step() may fail before the statement runs.                      *)
Step(s) ==
  /\ stepping = s
  /\ StreamsOf(s) = {}
  /\ \E runs \in BOOLEAN : ready' = [ready EXCEPT ![s] = @ /\ ~runs]
  /\ myStepped' = [myStepped EXCEPT ![s] = TRUE]
  /\ stepping' = NoStmt
  /\ UNCHANGED <<memory, poolVars, stream, bound, state, myHasBindings, phase>>

(* The statement was cancelled before.                                     *)
StepCancelled(s) ==
  /\ stepping = s
  /\ StreamsOf(s) = {}
  /\ stepping' = NoStmt
  /\ UNCHANGED <<memory, poolVars, stream, bound, stmtVars, phase>>

ClearBound_KeepsStreams(s) ==   \* mutation: without clearBindStreams(false)
  IF myHasBindings[s]
  THEN /\ memory' = ReleaseAll(memory, BoundIn(s))
       /\ bound' = Unbound(s)
       /\ myHasBindings' = [myHasBindings EXCEPT ![s] = FALSE]
       /\ UNCHANGED stream
  ELSE UNCHANGED <<memory, bound, stream, myHasBindings>>

(* sqlite3_clear_bindings(), and the streams after it.                     *)
ClearBound(s) ==
  IF myHasBindings[s]
  THEN /\ memory' = FreeAll(ReleaseAll(memory, BoundIn(s)), Streamed(s))
       /\ bound' = Unbound(s)
       /\ stream' = WithoutStreams(s)
       /\ myHasBindings' = [myHasBindings EXCEPT ![s] = FALSE]
  ELSE UNCHANGED <<memory, bound, stream, myHasBindings>>

Reset(s, clearBindings) ==
  /\ Idle
  /\ state[s] = "open"
  /\ ready' = [ready EXCEPT ![s] = @ \/ myStepped[s]]
  /\ myStepped' = [myStepped EXCEPT ![s] = FALSE]
  /\ IF clearBindings THEN ClearBound(s)
                      ELSE UNCHANGED <<memory, bound, stream, myHasBindings>>
  /\ UNCHANGED <<poolVars, state, stepping, phase>>

(* Also while the statement runs.                                          *)
ClearBindings(s) ==
  /\ Idle
  /\ state[s] = "open"
  /\ ClearBound(s)
  /\ UNCHANGED <<poolVars, ready, state, myStepped, stepping, phase>>

-----------------------------------------------------------------------------
(* dispose() of a statement and cacheStatementHandle(): the handle is put  *)
(* into the cache.                                                         *)
CacheHandle(s) ==
  LET cleared == IF myHasBindings[s] THEN ReleaseAll(memory, BoundIn(s)) ELSE memory IN
  /\ Idle
  /\ state[s] = "open"
  /\ ready' = [ready EXCEPT ![s] = @ \/ myStepped[s]]
  /\ bound' = IF myHasBindings[s] THEN Unbound(s) ELSE bound
  /\ memory' = FreeAll(cleared, Streamed(s))
  /\ stream' = WithoutStreams(s)
  /\ state' = [state EXCEPT ![s] = "cached"]
  /\ myStepped' = [myStepped EXCEPT ![s] = FALSE]
  /\ myHasBindings' = [myHasBindings EXCEPT ![s] = FALSE]
  /\ UNCHANGED <<poolVars, stepping, phase>>

(* finalizeStatement() disposes of the streams and sqlite3_finalize()      *)
(* releases the parameters: of a statement that is not cached, whose last  *)
(* step failed, or when the connection is closed.                          *)
FinalizeStatement(s) ==
  /\ \/ Idle /\ state[s] = "open"
     \/ phase = "closing" /\ state[s] # "none"
  /\ memory' = ReleaseAll(FreeAll(memory, Streamed(s)), BoundIn(s))
  /\ stream' = WithoutStreams(s)
  /\ bound' = Unbound(s)
  /\ ready' = [ready EXCEPT ![s] = TRUE]
  /\ state' = [state EXCEPT ![s] = "none"]
  /\ myStepped' = [myStepped EXCEPT ![s] = FALSE]
  /\ myHasBindings' = [myHasBindings EXCEPT ![s] = FALSE]
  /\ UNCHANGED <<poolVars, stepping, phase>>

(* dispose() of the connection.                                            *)
Dispose ==
  /\ Idle
  /\ phase' = "closing"
  /\ UNCHANGED <<memory, poolVars, stream, bound, stmtVars, stepping>>

FinalizeBuffers ==
  /\ phase = "closing"
  /\ \A s \in Stmts : state[s] = "none"
  /\ memory' = [b \in Buffers |-> IF b \in myBuffers THEN WrapperFree(memory[b]) ELSE memory[b]]
  /\ myBuffers' = {} /\ myBuffersTotalSize' = 0
  /\ phase' = "closed"
  /\ UNCHANGED <<stream, bound, stmtVars, stepping>>

StreamOperation(k) ==
  \/ \E s \in Stmts, p \in Params, n \in Requests : BindStream(s, p, k, n)
  \/ Write(k) \/ WriteFails(k) \/ Close(k) \/ CloseUnclosed(k)

StatementOperation(s) ==
  \/ Prepare(s) \/ PrepareStep(s) \/ Step(s) \/ StepCancelled(s)
  \/ ClearBindings(s) \/ CacheHandle(s) \/ FinalizeStatement(s)
  \/ \E flag \in BOOLEAN : Reset(s, flag) \/ \E p \in Params : BindValue(s, p, flag)

Next ==
  \/ \E k \in Streams : StreamOperation(k)
  \/ \E s \in Stmts : StatementOperation(s)
  \/ Dispose \/ FinalizeBuffers

Spec == Init /\ [][Next]_vars

-----------------------------------------------------------------------------
(***************************************************************************)
(* Properties.                                                             *)
(***************************************************************************)

OpenStreams == {k \in Streams : stream[k] # NoStream}
Filled(b) == \E k \in OpenStreams : stream[k].buffer = b
Read(b) == \E s \in Stmts, p \in Params : bound[s][p] = b

(* A buffer that a parameter is bound to is not filled by a stream, and no *)
(* two streams or parameters have the same one, although buffers go back   *)
(* to the pool by counts that Java and two C functions write: the value a  *)
(* statement reads is the one that was bound.                              *)
ValuesAreStable ==
  /\ \A b \in Buffers : ~(Filled(b) /\ Read(b))
  /\ \A j, k \in OpenStreams : stream[j].buffer = stream[k].buffer => j = k
  /\ \A s, t \in Stmts, p, q \in Params :
       bound[s][p] = bound[t][q] /\ bound[s][p] # NoBuffer => s = t /\ p = q

(* The count is that of the users, also after SQLite refused a binding and *)
(* both bind_release() and wrapper_bind_buffer() counted down; so a buffer *)
(* of the pool whose count is not 0 is not lost to it.                     *)
UseCountExact ==
  \A b \in Buffers :
    memory[b].used = (IF Filled(b) THEN 1 ELSE 0) + (IF Read(b) THEN 1 ELSE 0)

(* Memory is freed when nobody has it any more, and not before: by the     *)
(* last of the stream, the parameter and the pool, and at the latest when  *)
(* the connection is disposed of.                                          *)
MemoryIsOwned ==
  \A b \in Buffers :
    /\ memory[b].size # 0 <=> Filled(b) \/ Read(b) \/ b \in myBuffers
    /\ memory[b].pending => Read(b) /\ b \notin myBuffers

(* The handle of a disposed statement is cached without values, although   *)
(* they are cleared only if myHasBindings says so: the next statement with *)
(* this SQL does not see them.                                             *)
CachedIsUnbound ==
  \A s \in Stmts : state[s] = "cached" => BoundIn(s) = {} /\ StreamsOf(s) = {} /\ ready[s]
==============================================================================
