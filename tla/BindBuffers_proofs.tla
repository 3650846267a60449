-------------------------- MODULE BindBuffers_proofs --------------------------
(***************************************************************************)
(* Proofs about BindBuffers for every set of buffers, streams, statements  *)
(* and parameters, and every size and limit of the pool.                   *)
(***************************************************************************)
EXTENDS BindBuffers, TLAPS

USE BindBuffersAssumption DEF Idle, CONTROL_BYTES

(* A buffer is filled by one stream, read by one parameter, or at rest in  *)
(* the pool, and its two control bytes tell which: freeing is pending as   *)
(* long as a parameter reads what is not in the pool.                      *)
CellTells(b) ==
  /\ ~(Filled(b) /\ Read(b))
  /\ Filled(b) \/ Read(b) => memory[b].used = 1
  /\ ~Filled(b) /\ ~Read(b) => memory[b].used = 0
  /\ memory[b].size # 0 <=> Filled(b) \/ Read(b) \/ b \in myBuffers
  /\ memory[b].pending <=> Read(b) /\ b \notin myBuffers

CellsTell == \A b \in Buffers : CellTells(b)

StreamsApart == \A j, k \in OpenStreams : stream[j].buffer = stream[k].buffer => j = k

ParamsApart ==
  \A s, t \in Stmts, p, q \in Params :
    bound[s][p] = bound[t][q] /\ bound[s][p] # NoBuffer => s = t /\ p = q

Bare(s) ==
  /\ \A p \in Params : bound[s][p] = NoBuffer
  /\ \A k \in OpenStreams : stream[k].stmt # s

(* myHasBindings, myStepped and the state of a statement tell what it has. *)
StatementsTell ==
  \A s \in Stmts :
    /\ state[s] # "open" \/ ~myHasBindings[s] => Bare(s)
    /\ state[s] # "open" => ready[s]
    /\ ~ready[s] => myStepped[s]

PhaseTells ==
  /\ stepping # NoStmt => phase = "open" /\ state[stepping] = "open"
  /\ phase = "closed" => myBuffers = {} /\ \A s \in Stmts : state[s] = "none"

IndInv == TypeOK /\ CellsTell /\ StreamsApart /\ ParamsApart /\ StatementsTell /\ PhaseTells

-----------------------------------------------------------------------------
(***************************************************************************)
(* What the operations do to the memory of a buffer.                       *)
(***************************************************************************)
LEMMA FreeCell == Free \in Cell /\ Free.size = 0 /\ Free.used = 0 /\ ~Free.pending
BY DEF Free, Cell

LEMMA IncUsedCell ==
  ASSUME NEW c \in Cell
  PROVE  /\ IncUsed(c) \in Cell
         /\ IncUsed(c).size = c.size
         /\ IncUsed(c).pending = c.pending
         /\ c.used < 255 => IncUsed(c).used = c.used + 1
<1>1. c.used \in 0 .. 255
  BY DEF Cell
<1>2. (c.used + 1) % 256 \in 0 .. 255 /\ (c.used < 255 => (c.used + 1) % 256 = c.used + 1)
  BY <1>1
<1> QED
  BY <1>2 DEF IncUsed, Cell

LEMMA DecUsedCell ==
  ASSUME NEW c \in Cell
  PROVE  /\ DecUsed(c) \in Cell
         /\ DecUsed(c).size = c.size
         /\ DecUsed(c).pending = c.pending
         /\ DecUsed(c).used = IF c.used > 0 THEN c.used - 1 ELSE 0
BY DEF DecUsed, Cell

LEMMA WrapperFreeCell ==
  ASSUME NEW c \in Cell
  PROVE  /\ WrapperFree(c) \in Cell
         /\ c.used = 0 => WrapperFree(c) = Free
         /\ c.used # 0 => /\ WrapperFree(c).size = c.size
                          /\ WrapperFree(c).used = c.used
                          /\ WrapperFree(c).pending
<1>1. ASSUME NEW p \in BOOLEAN
      PROVE  LET d == [c EXCEPT !.pending = p] IN
             d \in Cell /\ d.size = c.size /\ d.used = c.used /\ d.pending = p
  BY DEF Cell
<1>2. LET d == [c EXCEPT !.pending = TRUE] IN
      d \in Cell /\ d.size = c.size /\ d.used = c.used /\ d.pending
  BY <1>1
<1>3. CASE c.used = 0
  BY <1>3, FreeCell DEF WrapperFree
<1>4. CASE c.used # 0
  BY <1>2, <1>4, ZenonT(60) DEF WrapperFree
<1> QED
  BY <1>3, <1>4

LEMMA BindReleaseCell ==
  ASSUME NEW c \in Cell
  PROVE  /\ BindRelease(c) \in Cell
         /\ c.pending => BindRelease(c) = Free
         /\ ~c.pending => BindRelease(c) = DecUsed(c)
BY FreeCell, DecUsedCell DEF BindRelease

LEMMA RefusedCell ==
  ASSUME NEW c \in Cell
  PROVE  /\ Refused(c) \in Cell
         /\ Refused(c).size = c.size
         /\ Refused(c).pending = c.pending
         /\ c.used = 1 => Refused(c).used = 0
<1>1. c.used \in 0 .. 255
  BY DEF Cell
<1>2. (c.used + 255) % 256 \in 0 .. 255 /\ (1 + 255) % 256 = 0
  BY <1>1
<1> QED
  BY <1>2 DEF Refused, Cell

(* A stream gives up a buffer unbound.                                     *)
LEMMA GivenUp ==
  ASSUME NEW c \in Cell, NEW b \in Buffers, c.used \in {0, 1}, ~c.pending
  PROVE  LET d == FreeBuffer(c, b \in myBuffers) IN
         /\ d \in Cell /\ d.used = 0 /\ ~d.pending
         /\ b \in myBuffers => d.size = c.size
         /\ b \notin myBuffers => d.size = 0
<1>1. DecUsed(c) \in Cell /\ DecUsed(c).used = 0 /\ ~DecUsed(c).pending /\ DecUsed(c).size = c.size
  BY DecUsedCell
<1> QED
  BY <1>1, WrapperFreeCell, FreeCell DEF FreeBuffer

(* ... and one that was bound to a parameter.                              *)
LEMMA HandedOver ==
  ASSUME NEW c \in Cell, NEW b \in Buffers, c.used = 1, ~c.pending
  PROVE  LET d == FreeBuffer(IncUsed(c), b \in myBuffers) IN
         /\ d \in Cell /\ d.used = 1 /\ d.size = c.size
         /\ d.pending <=> b \notin myBuffers
<1>1. IncUsed(c) \in Cell /\ IncUsed(c).used = 2 /\ ~IncUsed(c).pending /\ IncUsed(c).size = c.size
  BY IncUsedCell
<1>2. /\ DecUsed(IncUsed(c)) \in Cell /\ DecUsed(IncUsed(c)).used = 1
      /\ ~DecUsed(IncUsed(c)).pending /\ DecUsed(IncUsed(c)).size = c.size
  BY <1>1, DecUsedCell
<1> QED
  BY <1>2, WrapperFreeCell DEF FreeBuffer

(* ... and one that SQLite refused to bind: it was counted down twice.     *)
LEMMA TakenBack ==
  ASSUME NEW c \in Cell, NEW b \in Buffers, c.used = 1, ~c.pending
  PROVE  LET d == FreeBuffer(Refused(BindRelease(IncUsed(c))), b \in myBuffers) IN
         /\ d \in Cell /\ d.used = 0 /\ ~d.pending
         /\ b \in myBuffers => d.size = c.size
         /\ b \notin myBuffers => d.size = 0
<1> DEFINE i == IncUsed(c)  r == BindRelease(i)  e == Refused(r)
<1>1. i \in Cell /\ i.used = 2 /\ ~i.pending /\ i.size = c.size
  BY IncUsedCell
<1>2. r \in Cell /\ r.used = 1 /\ ~r.pending /\ r.size = c.size
  <2> HIDE DEF i
  <2> QED
    BY <1>1, BindReleaseCell, DecUsedCell
<1>3. e \in Cell /\ e.used = 0 /\ ~e.pending /\ e.size = c.size
  <2> HIDE DEF r
  <2> QED
    BY <1>2, RefusedCell
<1> HIDE DEF e
<1>4. LET d == FreeBuffer(e, b \in myBuffers) IN
         /\ d \in Cell /\ d.used = 0 /\ ~d.pending
         /\ b \in myBuffers => d.size = e.size
         /\ b \notin myBuffers => d.size = 0
  BY <1>3, GivenUp
<1> QED
  BY <1>3, <1>4 DEF e

(* A parameter gives up its buffer.                                        *)
LEMMA ReleasedCell ==
  ASSUME NEW c \in Cell, c.used = 1
  PROVE  /\ BindRelease(c) \in Cell /\ BindRelease(c).used = 0 /\ ~BindRelease(c).pending
         /\ ~c.pending => BindRelease(c).size = c.size
         /\ c.pending => BindRelease(c).size = 0
BY BindReleaseCell, DecUsedCell, FreeCell
-----------------------------------------------------------------------------
(***************************************************************************)
(* Which buffers streams fill and parameters read, when streams come and   *)
(* go and parameters are bound and cleared.                                *)
(***************************************************************************)
LEMMA OpenStream ==
  ASSUME TypeOK, NEW k \in OpenStreams
  PROVE  /\ k \in Streams /\ stream[k] \in Stream /\ stream[k] # NoStream
         /\ stream[k].stmt \in Stmts /\ stream[k].param \in Params
         /\ stream[k].buffer \in Buffers /\ Filled(stream[k].buffer)
BY DEF TypeOK, OpenStreams, Stream, Filled

(* One stream is opened, or changes its buffer.                            *)
LEMMA StreamPut ==
  ASSUME TypeOK, StreamsApart, NEW k \in Streams, NEW x \in Stream, NEW c \in Buffers,
         x.buffer = c, ~Filled(c), stream'[k] = x, \A j \in Streams \ {k} : stream'[j] = stream[j]
  PROVE  /\ StreamsApart'
         /\ \A j : j \in OpenStreams' <=> j \in OpenStreams \/ j = k
         /\ \A b \in Buffers : Filled(b)' <=> b = c \/ (Filled(b) /\ stream[k].buffer # b)
                                   \/ (Filled(b) /\ k \notin OpenStreams)
<1>1. x # NoStream
  BY DEF Stream
<1>2. \A j : j \in OpenStreams' <=> j \in OpenStreams \/ j = k
  BY <1>1 DEF OpenStreams
<1>3. StreamsApart'
  BY <1>2, OpenStream DEF StreamsApart, Filled, OpenStreams
<1>4. \A b \in Buffers : Filled(b)' <=> b = c \/ (Filled(b) /\ stream[k].buffer # b)
                                   \/ (Filled(b) /\ k \notin OpenStreams)
  BY <1>2 DEF StreamsApart, Filled, OpenStreams
<1> QED
  BY <1>2, <1>3, <1>4

(* One stream is disposed of.                                              *)
LEMMA StreamGone ==
  ASSUME TypeOK, StreamsApart, NEW k \in OpenStreams,
         stream'[k] = NoStream, \A j \in Streams \ {k} : stream'[j] = stream[j]
  PROVE  /\ StreamsApart'
         /\ \A j : j \in OpenStreams' <=> j \in OpenStreams /\ j # k
         /\ \A b \in Buffers : Filled(b)' <=> Filled(b) /\ stream[k].buffer # b
<1>1. \A j : j \in OpenStreams' <=> j \in OpenStreams /\ j # k
  BY DEF OpenStreams
<1>2. StreamsApart'
  BY <1>1 DEF StreamsApart, OpenStreams
<1>3. \A b \in Buffers : Filled(b)' <=> Filled(b) /\ stream[k].buffer # b
  BY <1>1 DEF StreamsApart, Filled, OpenStreams
<1> QED
  BY <1>1, <1>2, <1>3

(* All streams of a statement are.                                         *)
LEMMA StreamsGone ==
  ASSUME TypeOK, StreamsApart, NEW s \in Stmts, stream' = WithoutStreams(s)
  PROVE  /\ stream' \in [Streams -> Stream \union {NoStream}]
         /\ StreamsApart'
         /\ \A j : j \in OpenStreams' <=> j \in OpenStreams /\ stream[j].stmt # s
         /\ \A j \in OpenStreams' : stream'[j] = stream[j]
         /\ \A b \in Buffers : b \in Streamed(s) => Filled(b)
         /\ \A b \in Buffers : Filled(b)' <=> Filled(b) /\ b \notin Streamed(s)
<1>1. \A j : j \in StreamsOf(s) <=> j \in OpenStreams /\ stream[j].stmt = s
  BY DEF StreamsOf, OpenStreams
<1>2. \A j \in Streams : stream'[j] = IF j \in StreamsOf(s) THEN NoStream ELSE stream[j]
  BY DEF WithoutStreams
<1>3. stream' \in [Streams -> Stream \union {NoStream}]
  BY DEF WithoutStreams, TypeOK
<1>4. \A j : j \in OpenStreams' <=> j \in OpenStreams /\ stream[j].stmt # s
  BY <1>1, <1>2 DEF OpenStreams
<1>5. \A j \in OpenStreams' : stream'[j] = stream[j]
  BY <1>1, <1>2, <1>4 DEF OpenStreams
<1>6. StreamsApart'
  BY <1>4, <1>5 DEF StreamsApart
<1>7. \A b \in Buffers : b \in Streamed(s) <=> \E j \in OpenStreams : stream[j].stmt = s /\ stream[j].buffer = b
  BY <1>1 DEF Streamed
<1>8. \A b \in Buffers : Filled(b)' <=> Filled(b) /\ b \notin Streamed(s)
  BY <1>4, <1>5, <1>7 DEF Filled, StreamsApart
<1> QED
  BY <1>3, <1>4, <1>5, <1>6, <1>7, <1>8 DEF Filled

LEMMA StreamsSame ==
  ASSUME UNCHANGED stream
  PROVE  /\ StreamsApart => StreamsApart'
         /\ OpenStreams' = OpenStreams
         /\ \A b : Filled(b)' <=> Filled(b)
BY DEF StreamsApart, OpenStreams, Filled

(* A parameter is bound to a buffer that no other one reads, or to another *)
(* value.                                                                  *)
LEMMA ParamPut ==
  ASSUME TypeOK, ParamsApart, NEW s \in Stmts, NEW p \in Params,
         NEW x \in Buffers \union {NoBuffer}, ~Read(x) \/ x = NoBuffer,
         \A t \in Stmts, q \in Params :
           bound'[t][q] = IF t = s /\ q = p THEN x ELSE bound[t][q]
  PROVE  /\ ParamsApart'
         /\ \A b \in Buffers : Read(b)' <=> b = x \/ (Read(b) /\ bound[s][p] # b)
<1>1. ParamsApart'
  BY DEF ParamsApart, Read
<1>2. \A b \in Buffers : Read(b)' <=> b = x \/ (Read(b) /\ bound[s][p] # b)
  BY DEF ParamsApart, Read
<1> QED
  BY <1>1, <1>2

(* All parameters of a statement are cleared.                              *)
LEMMA ParamsGone ==
  ASSUME TypeOK, ParamsApart, NEW s \in Stmts, bound' = Unbound(s)
  PROVE  /\ bound' \in [Stmts -> [Params -> Buffers \union {NoBuffer}]]
         /\ ParamsApart'
         /\ \A p \in Params : bound'[s][p] = NoBuffer
         /\ \A t \in Stmts \ {s} : bound'[t] = bound[t]
         /\ \A b \in Buffers : b \in BoundIn(s) => Read(b)
         /\ \A b \in Buffers : Read(b)' <=> Read(b) /\ b \notin BoundIn(s)
<1>1. bound' \in [Stmts -> [Params -> Buffers \union {NoBuffer}]]
  BY DEF TypeOK, Unbound
<1>2. /\ \A p \in Params : bound'[s][p] = NoBuffer
      /\ \A t \in Stmts \ {s} : bound'[t] = bound[t]
  BY DEF TypeOK, Unbound
<1>3. ParamsApart'
  BY <1>2 DEF ParamsApart
<1>4. \A b \in Buffers : b \in BoundIn(s) <=> \E p \in Params : bound[s][p] = b
  BY DEF BoundIn
<1>5. \A b \in Buffers : Read(b)' <=> Read(b) /\ b \notin BoundIn(s)
  BY <1>2, <1>4 DEF ParamsApart, Read
<1> QED
  BY <1>1, <1>2, <1>3, <1>4, <1>5 DEF Read

LEMMA ParamsSame ==
  ASSUME UNCHANGED bound
  PROVE  /\ ParamsApart => ParamsApart'
         /\ \A b : Read(b)' <=> Read(b)
BY DEF ParamsApart, Read
-----------------------------------------------------------------------------
(***************************************************************************)
(* The streams.                                                            *)
(***************************************************************************)
LEMMA InitIndInv == Init => IndInv
<1> SUFFICES ASSUME Init PROVE IndInv
  OBVIOUS
<1>1. TypeOK
  BY FreeCell DEF Init, TypeOK
<1>2. /\ OpenStreams = {}
      /\ \A b \in Buffers : ~Filled(b) /\ ~Read(b)
  BY DEF Init, OpenStreams, Filled, Read
<1>3. CellsTell
  BY <1>2, FreeCell DEF Init, CellsTell, CellTells
<1> QED
  BY <1>1, <1>2, <1>3 DEF Init, IndInv, StreamsApart, ParamsApart, StatementsTell, Bare, PhaseTells

LEMMA Cells == TypeOK => \A b \in Buffers : memory[b] \in Cell
BY DEF TypeOK

(* A buffer that allocateBuffer() returns belongs to nobody else.          *)
LEMMA ObtainedBuffer ==
  ASSUME TypeOK, CellsTell, NEW n \in Sizes, NEW b \in Buffers, Reuse(n, b) \/ Allocate(n, b)
  PROVE  /\ ~Filled(b) /\ ~Read(b)
         /\ Obtained(n, b) \in Cell /\ Obtained(n, b).used = 1
         /\ Obtained(n, b).size # 0 /\ ~Obtained(n, b).pending
         /\ myBuffers' \subseteq Buffers /\ myBuffersTotalSize' \in Int
         /\ \A c \in Buffers \ {b} : c \in myBuffers' <=> c \in myBuffers
<1>1. /\ myBuffers' \subseteq Buffers /\ myBuffersTotalSize' \in Int
      /\ \A c \in Buffers \ {b} : c \in myBuffers' <=> c \in myBuffers
  BY DEF TypeOK, Reuse, Allocate, poolVars
<1>2. memory[b] \in Cell /\ CellTells(b)
  BY Cells DEF CellsTell
<1>3. CASE memory[b].size = 0
  <2>1. ~Reuse(n, b)
    BY <1>3 DEF Reuse, Usable
  <2>2. LET c == [Free EXCEPT !.size = n] IN
        c \in Cell /\ c.size = n /\ c.used = 0 /\ ~c.pending
    BY FreeCell DEF Cell
  <2>3. PICK c \in Cell : /\ c.size = n /\ c.used = 0 /\ ~c.pending
                         /\ Obtained(n, b) = IncUsed(c)
    BY <1>3, <2>2 DEF Obtained
  <2>4. /\ Obtained(n, b) \in Cell /\ Obtained(n, b).used = 1
        /\ Obtained(n, b).size = n /\ ~Obtained(n, b).pending
    BY <2>3, IncUsedCell
  <2> QED
    BY <1>1, <1>2, <1>3, <2>4 DEF CellTells
<1>4. CASE memory[b].size # 0
  <2>1. b \in myBuffers /\ memory[b].used = 0
    BY <1>4 DEF Reuse, Usable, Allocate
  <2>2. Obtained(n, b) = IncUsed(memory[b])
    BY <1>4 DEF Obtained
  <2>3. ~memory[b].pending
    BY <1>2, <2>1 DEF CellTells
  <2>4. /\ Obtained(n, b) \in Cell /\ Obtained(n, b).used = 1
        /\ Obtained(n, b).size = memory[b].size /\ ~Obtained(n, b).pending
    BY <1>2, <2>1, <2>2, <2>3, IncUsedCell
  <2> QED
    BY <1>1, <1>2, <1>4, <2>1, <2>4 DEF CellTells
<1> QED
  BY <1>3, <1>4

LEMMA BindStreamInv ==
  ASSUME IndInv, NEW s \in Stmts, NEW p \in Params, NEW k \in Streams, NEW request \in Requests,
         BindStream(s, p, k, request)
  PROVE  IndInv'
<1> USE DEF IndInv
<1>1. PICK n \in Sizes, b \in Buffers :
        /\ Reuse(n, b) \/ Allocate(n, b)
        /\ memory' = [memory EXCEPT ![b] = Obtained(n, b)]
        /\ stream' = [stream EXCEPT ![k] = [stmt |-> s, param |-> p, buffer |-> b]]
  BY DEF BindStream, SizeFor
<1>2. PICK x \in Stream : x = [stmt |-> s, param |-> p, buffer |-> b]
  BY DEF Stream
<1>3. x.stmt = s /\ x.buffer = b /\ stream' = [stream EXCEPT ![k] = x]
  BY <1>1, <1>2
<1>4. /\ ~Filled(b) /\ ~Read(b)
      /\ Obtained(n, b) \in Cell /\ Obtained(n, b).used = 1
      /\ Obtained(n, b).size # 0 /\ ~Obtained(n, b).pending
      /\ myBuffers' \subseteq Buffers /\ myBuffersTotalSize' \in Int
      /\ \A c \in Buffers \ {b} : c \in myBuffers' <=> c \in myBuffers
  BY <1>1, ObtainedBuffer
<1>5. k \notin OpenStreams
  BY DEF BindStream, OpenStreams
<1>6. /\ stream' \in [Streams -> Stream \union {NoStream}]
      /\ StreamsApart'
      /\ \A j : j \in OpenStreams' <=> j \in OpenStreams \/ j = k
      /\ stream'[k] = x /\ \A j \in OpenStreams \ {k} : stream'[j] = stream[j]
      /\ \A c \in Buffers : Filled(c)' <=> c = b \/ Filled(c)
  <2>1. /\ stream' \in [Streams -> Stream \union {NoStream}]
        /\ stream'[k] = x /\ \A j \in Streams \ {k} : stream'[j] = stream[j]
    BY <1>3 DEF TypeOK
  <2>2. /\ StreamsApart'
        /\ \A j : j \in OpenStreams' <=> j \in OpenStreams \/ j = k
        /\ \A c \in Buffers : Filled(c)' <=> c = b \/ (Filled(c) /\ stream[k].buffer # c)
                                         \/ (Filled(c) /\ k \notin OpenStreams)
    BY <1>3, <1>4, <2>1, StreamPut
  <2> QED
    BY <1>5, <2>1, <2>2 DEF OpenStreams
<1>7. /\ UNCHANGED <<bound, ready, state, myStepped, stepping, phase>>
      /\ state[s] = "open" /\ stepping = NoStmt /\ phase = "open"
      /\ myHasBindings' = [myHasBindings EXCEPT ![s] = TRUE]
  BY DEF BindStream
<1>8. ParamsApart' /\ \A c : Read(c)' <=> Read(c)
  BY <1>7, ParamsSame
<1>9. memory' \in [Buffers -> Cell] /\ memory'[b] = Obtained(n, b)
      /\ \A c \in Buffers \ {b} : memory'[c] = memory[c]
  BY <1>1, <1>4 DEF TypeOK
<1>10. TypeOK'
  BY <1>4, <1>6, <1>7, <1>9 DEF TypeOK
<1>11. CellsTell'
  <2> SUFFICES ASSUME NEW c \in Buffers PROVE CellTells(c)'
    BY DEF CellsTell
  <2>1. CASE c = b
    BY <1>4, <1>6, <1>8, <1>9, <2>1 DEF CellTells
  <2>2. CASE c # b
    BY <1>4, <1>6, <1>8, <1>9, <2>2 DEF CellsTell, CellTells
  <2> QED
    BY <2>1, <2>2
<1>12. StatementsTell'
  <2> SUFFICES ASSUME NEW t \in Stmts
               PROVE  /\ state'[t] # "open" \/ ~myHasBindings'[t] => Bare(t)'
                      /\ state'[t] # "open" => ready'[t]
                      /\ ~ready'[t] => myStepped'[t]
    BY DEF StatementsTell
  <2>1. CASE t = s
    BY <1>7, <2>1 DEF StatementsTell, TypeOK
  <2>2. CASE t # s
    <3>1. Bare(t) => Bare(t)'
      BY <1>3, <1>6, <1>7, <2>2 DEF Bare
    <3>2. myHasBindings'[t] = myHasBindings[t]
      BY <1>7, <2>2 DEF TypeOK
    <3> QED
      BY <1>7, <3>1, <3>2 DEF StatementsTell
  <2> QED
    BY <2>1, <2>2
<1>13. PhaseTells'
  BY <1>7 DEF PhaseTells
<1> QED
  BY <1>6, <1>8, <1>10, <1>11, <1>12, <1>13

LEMMA WriteInv ==
  ASSUME IndInv, NEW k \in Streams, Write(k)
  PROVE  IndInv'
<1> USE DEF IndInv
<1> DEFINE old == stream[k].buffer
<1>1. k \in OpenStreams
  BY DEF Write, OpenStreams
<1>2. PICK n \in Sizes, b \in Buffers :
        /\ Reuse(n, b) \/ Allocate(n, b)
        /\ memory' = [memory EXCEPT ![b] = Obtained(n, b),
                                    ![old] = FreeBuffer(memory[old], old \in myBuffers)]
        /\ stream' = [stream EXCEPT ![k].buffer = b]
  BY DEF Write, SizeFor
<1>3. old \in Buffers /\ Filled(old) /\ stream[k] \in Stream /\ stream[k].stmt \in Stmts
  BY <1>1, OpenStream
<1>4. PICK x \in Stream : x = [stream[k] EXCEPT !.buffer = b]
  BY <1>3 DEF Stream
<1>5. x.stmt = stream[k].stmt /\ x.buffer = b /\ stream' = [stream EXCEPT ![k] = x]
  BY <1>2, <1>3, <1>4 DEF Stream
<1>6. /\ ~Filled(b) /\ ~Read(b)
      /\ Obtained(n, b) \in Cell /\ Obtained(n, b).used = 1
      /\ Obtained(n, b).size # 0 /\ ~Obtained(n, b).pending
      /\ myBuffers' \subseteq Buffers /\ myBuffersTotalSize' \in Int
      /\ \A c \in Buffers \ {b} : c \in myBuffers' <=> c \in myBuffers
  BY <1>2, ObtainedBuffer
<1>7. /\ stream' \in [Streams -> Stream \union {NoStream}]
      /\ StreamsApart'
      /\ \A j : j \in OpenStreams' <=> j \in OpenStreams
      /\ stream'[k] = x /\ \A j \in OpenStreams \ {k} : stream'[j] = stream[j]
      /\ \A c \in Buffers : Filled(c)' <=> c = b \/ (Filled(c) /\ old # c)
  <2>1. /\ stream' \in [Streams -> Stream \union {NoStream}]
        /\ stream'[k] = x /\ \A j \in Streams \ {k} : stream'[j] = stream[j]
    BY <1>5 DEF TypeOK
  <2>2. /\ StreamsApart'
        /\ \A j : j \in OpenStreams' <=> j \in OpenStreams \/ j = k
        /\ \A c \in Buffers : Filled(c)' <=> c = b \/ (Filled(c) /\ stream[k].buffer # c)
                                         \/ (Filled(c) /\ k \notin OpenStreams)
    BY <1>5, <1>6, <2>1, StreamPut
  <2> QED
    BY <1>1, <2>1, <2>2 DEF OpenStreams
<1>8. UNCHANGED <<bound, stmtVars, stepping, phase>> /\ stepping = NoStmt /\ phase = "open"
  BY DEF Write
<1>9. ParamsApart' /\ \A c : Read(c)' <=> Read(c)
  BY <1>8, ParamsSame
<1>10. memory[old] \in Cell /\ memory[old].used = 1 /\ ~memory[old].pending /\ memory[old].size # 0
       /\ ~Read(old)
  BY <1>3, Cells DEF CellsTell, CellTells
<1>11. PICK d \in Cell : /\ d = FreeBuffer(memory[old], old \in myBuffers) /\ d.used = 0 /\ ~d.pending
                         /\ d.size # 0 <=> old \in myBuffers
  BY <1>3, <1>10, GivenUp
<1>12. old # b
  BY <1>3, <1>6
<1> HIDE DEF old
<1>13. memory' \in [Buffers -> Cell] /\ memory'[b] = Obtained(n, b) /\ memory'[old] = d
       /\ \A c \in Buffers \ {b, old} : memory'[c] = memory[c]
  BY <1>2, <1>3, <1>6, <1>11, <1>12 DEF TypeOK
<1>14. TypeOK'
  BY <1>6, <1>7, <1>8, <1>13 DEF TypeOK, stmtVars
<1>15. CellsTell'
  <2> SUFFICES ASSUME NEW c \in Buffers PROVE CellTells(c)'
    BY DEF CellsTell
  <2>1. CASE c = b
    BY <1>6, <1>7, <1>9, <1>13, <2>1 DEF CellTells
  <2>2. CASE c = old
    BY <1>6, <1>7, <1>9, <1>10, <1>11, <1>12, <1>13, <2>2 DEF CellTells
  <2>3. CASE c \notin {b, old}
    BY <1>6, <1>7, <1>9, <1>13, <2>3 DEF CellsTell, CellTells
  <2> QED
    BY <2>1, <2>2, <2>3
<1>16. \A t \in Stmts : Bare(t) => Bare(t)'
  BY <1>5, <1>7, <1>8 DEF Bare
<1>17. StatementsTell'
  BY <1>8, <1>16 DEF StatementsTell, stmtVars
<1>18. PhaseTells'
  <2>1. phase' # "closed" /\ stepping' = NoStmt
    BY <1>8
  <2> QED
    BY <2>1 DEF PhaseTells
<1> QED
  BY <1>7, <1>9, <1>14, <1>15, <1>17, <1>18

(* The buffer of an open stream and its memory.                            *)
LEMMA StreamBuffer ==
  ASSUME IndInv, NEW k \in OpenStreams, NEW b, b = stream[k].buffer
  PROVE  /\ b \in Buffers /\ Filled(b) /\ ~Read(b)
         /\ memory[b] \in Cell /\ memory[b].used = 1 /\ ~memory[b].pending /\ memory[b].size # 0
<1>1. b \in Buffers /\ Filled(b)
  BY OpenStream DEF IndInv
<1> QED
  BY <1>1, Cells DEF IndInv, CellsTell, CellTells

LEMMA WriteFailsInv ==
  ASSUME IndInv, NEW k \in Streams, WriteFails(k)
  PROVE  IndInv'
<1> USE DEF IndInv
<1>1. k \in OpenStreams
  BY DEF WriteFails, OpenStreams
<1>2. PICK b : b = stream[k].buffer
  OBVIOUS
<1>3. /\ b \in Buffers /\ Filled(b) /\ ~Read(b)
      /\ memory[b] \in Cell /\ memory[b].used = 1 /\ ~memory[b].pending /\ memory[b].size # 0
  BY <1>1, <1>2, StreamBuffer
<1>4. /\ stream' \in [Streams -> Stream \union {NoStream}]
      /\ stream'[k] = NoStream /\ \A j \in Streams \ {k} : stream'[j] = stream[j]
  BY DEF WriteFails, TypeOK
<1>5. /\ StreamsApart'
      /\ \A j : j \in OpenStreams' <=> j \in OpenStreams /\ j # k
      /\ \A c \in Buffers : Filled(c)' <=> Filled(c) /\ b # c
  BY <1>1, <1>2, <1>4, StreamGone
<1>6. UNCHANGED <<poolVars, bound, stmtVars, stepping, phase>> /\ stepping = NoStmt /\ phase = "open"
  BY DEF WriteFails
<1>7. ParamsApart' /\ \A c : Read(c)' <=> Read(c)
  BY <1>6, ParamsSame
<1>8. PICK d \in Cell : /\ d = FreeBuffer(memory[b], b \in myBuffers) /\ d.used = 0 /\ ~d.pending
                        /\ d.size # 0 <=> b \in myBuffers
  BY <1>3, GivenUp
<1>9. memory' = [c \in Buffers |-> IF c = b THEN FreeBuffer(memory[c], c \in myBuffers) ELSE memory[c]]
  BY <1>2 DEF WriteFails, FreeAll
<1>10. memory' \in [Buffers -> Cell] /\ memory'[b] = d
       /\ \A c \in Buffers \ {b} : memory'[c] = memory[c]
  BY <1>3, <1>8, <1>9 DEF TypeOK
<1>11. TypeOK'
  BY <1>4, <1>6, <1>10 DEF TypeOK, stmtVars, poolVars
<1>12. CellsTell'
  <2> SUFFICES ASSUME NEW c \in Buffers PROVE CellTells(c)'
    BY DEF CellsTell
  <2>1. CASE c = b
    BY <1>3, <1>5, <1>6, <1>7, <1>8, <1>10, <2>1 DEF CellTells, poolVars
  <2>2. CASE c # b
    BY <1>5, <1>6, <1>7, <1>10, <2>2 DEF CellsTell, CellTells, poolVars
  <2> QED
    BY <2>1, <2>2
<1>13. \A t \in Stmts : Bare(t) => Bare(t)'
  BY <1>4, <1>5, <1>6 DEF Bare, OpenStreams
<1>14. StatementsTell'
  BY <1>6, <1>13 DEF StatementsTell, stmtVars
<1>15. PhaseTells'
  <2>1. phase' # "closed" /\ stepping' = NoStmt
    BY <1>6
  <2> QED
    BY <2>1 DEF PhaseTells
<1> QED
  BY <1>5, <1>7, <1>11, <1>12, <1>14, <1>15

(* A parameter gives up its buffer, if it has one.                         *)
LEMMA ParamBuffer ==
  ASSUME IndInv, NEW s \in Stmts, NEW p \in Params, NEW o, o = bound[s][p], o # NoBuffer
  PROVE  /\ o \in Buffers /\ Read(o) /\ ~Filled(o)
         /\ BindRelease(memory[o]) \in Cell /\ BindRelease(memory[o]).used = 0
         /\ ~BindRelease(memory[o]).pending
         /\ BindRelease(memory[o]).size # 0 <=> o \in myBuffers
<1>1. o \in Buffers /\ Read(o)
  BY DEF IndInv, TypeOK, Read
<1>2. memory[o] \in Cell /\ CellTells(o)
  BY <1>1, Cells DEF IndInv, CellsTell
<1>3. ~Filled(o) /\ memory[o].used = 1 /\ memory[o].size # 0 /\ (memory[o].pending <=> o \notin myBuffers)
  BY <1>1, <1>2 DEF CellTells
<1> QED
  BY <1>1, <1>2, <1>3, ReleasedCell

(* What one bound value more or less means for the buffers: stream k is    *)
(* closed, x is bound in the place of o, and d is what becomes of the cell *)
(* of the stream's buffer b.                                               *)
BoundInstead(k, s, p, x, d) ==
  LET b == stream[k].buffer
      o == bound[s][p]
  IN /\ x \in {b, NoBuffer} /\ d \in Cell
     /\ stream'[k] = NoStream /\ \A j \in Streams \ {k} : stream'[j] = stream[j]
     /\ \A t \in Stmts, q \in Params : bound'[t][q] = IF t = s /\ q = p THEN x ELSE bound[t][q]
     /\ x = b => d.used = 1 /\ d.size # 0 /\ (d.pending <=> b \notin myBuffers)
     /\ x = NoBuffer => d.used = 0 /\ (d.size # 0 <=> b \in myBuffers) /\ ~d.pending
     /\ memory'[b] = d /\ myBuffers' = myBuffers
     /\ \A c \in Buffers \ {b} : memory'[c] = IF c = o THEN BindRelease(memory[c]) ELSE memory[c]

LEMMA BoundCells ==
  ASSUME IndInv, NEW k \in OpenStreams, NEW s \in Stmts, NEW p \in Params, NEW x, NEW d,
         BoundInstead(k, s, p, x, d)
  PROVE  /\ CellsTell' /\ ParamsApart' /\ StreamsApart'
         /\ \A j : j \in OpenStreams' <=> j \in OpenStreams /\ j # k
         /\ \A c \in Buffers \ {stream[k].buffer} : memory'[c] \in Cell
<1>1. PICK b, o : b = stream[k].buffer /\ o = bound[s][p]
  OBVIOUS
<1>2. /\ x \in {b, NoBuffer} /\ d \in Cell
      /\ stream'[k] = NoStream /\ \A j \in Streams \ {k} : stream'[j] = stream[j]
      /\ \A t \in Stmts, q \in Params : bound'[t][q] = IF t = s /\ q = p THEN x ELSE bound[t][q]
      /\ x = b => d.used = 1 /\ d.size # 0 /\ (d.pending <=> b \notin myBuffers)
      /\ x = NoBuffer => d.used = 0 /\ (d.size # 0 <=> b \in myBuffers) /\ ~d.pending
      /\ memory'[b] = d /\ myBuffers' = myBuffers
      /\ \A c \in Buffers \ {b} : memory'[c] = IF c = o THEN BindRelease(memory[c]) ELSE memory[c]
  BY <1>1 DEF BoundInstead
<1>3. /\ b \in Buffers /\ Filled(b) /\ ~Read(b) /\ b # NoBuffer
  BY <1>1, StreamBuffer
<1>4. /\ StreamsApart'
      /\ \A j : j \in OpenStreams' <=> j \in OpenStreams /\ j # k
      /\ \A c \in Buffers : Filled(c)' <=> Filled(c) /\ b # c
  BY <1>1, <1>2, StreamGone DEF IndInv
<1>5. x \in Buffers \union {NoBuffer} /\ (~Read(x) \/ x = NoBuffer) /\ TypeOK /\ ParamsApart
  BY <1>2, <1>3 DEF IndInv
<1>6. /\ ParamsApart'
      /\ \A c \in Buffers : Read(c)' <=> c = x \/ (Read(c) /\ bound[s][p] # c)
  BY <1>2, <1>5, ParamPut
<1>7. o # b
  BY <1>1, <1>3 DEF Read
<1>8. ASSUME NEW c \in Buffers \ {b} PROVE CellTells(c)' /\ memory'[c] \in Cell
  <2>1. CASE c = o
    <3>1. o # NoBuffer
      BY <1>8, <2>1
    <3> QED
      BY <1>1, <1>2, <1>3, <1>4, <1>6, <1>8, <2>1, <3>1, ParamBuffer DEF CellTells
  <2>2. CASE c # o
    BY <1>1, <1>2, <1>3, <1>4, <1>6, <1>8, <2>2, Cells DEF IndInv, CellsTell, CellTells
  <2> QED
    BY <2>1, <2>2
<1>9. CellTells(b)'
  BY <1>1, <1>2, <1>3, <1>4, <1>6, <1>7 DEF CellTells
<1> QED
  BY <1>1, <1>4, <1>6, <1>8, <1>9 DEF CellsTell

(* The stream is closed: its buffer is bound to the parameter, or not.     *)
LEMMA CloseCells ==
  ASSUME IndInv, NEW k \in OpenStreams, CloseStream(k), UNCHANGED poolVars
  PROVE  /\ CellsTell' /\ ParamsApart' /\ StreamsApart'
         /\ memory' \in [Buffers -> Cell]
         /\ stream' \in [Streams -> Stream \union {NoStream}]
         /\ bound' \in [Stmts -> [Params -> Buffers \union {NoBuffer}]]
         /\ \A j : j \in OpenStreams' <=> j \in OpenStreams /\ j # k
         /\ \A j \in Streams \ {k} : stream'[j] = stream[j]
         /\ \A t \in Stmts \ {stream[k].stmt} : bound'[t] = bound[t]
<1> USE DEF IndInv
<1>1. PICK b : b = stream[k].buffer
  OBVIOUS
<1>2. PICK s \in Stmts, p \in Params : s = stream[k].stmt /\ p = stream[k].param
  BY OpenStream
<1>3. PICK o : o = bound[s][p]
  OBVIOUS
<1>4. /\ b \in Buffers /\ Filled(b) /\ ~Read(b) /\ b # NoBuffer /\ b # o
      /\ memory[b] \in Cell /\ memory[b].used = 1 /\ ~memory[b].pending /\ memory[b].size # 0
  BY <1>1, <1>3, StreamBuffer DEF Read
<1>5. /\ stream' \in [Streams -> Stream \union {NoStream}]
      /\ stream'[k] = NoStream /\ \A j \in Streams \ {k} : stream'[j] = stream[j]
  BY DEF CloseStream, TypeOK, OpenStreams
<1>6. PICK e \in Cell : /\ e = FreeBuffer(Refused(BindRelease(IncUsed(memory[b]))), b \in myBuffers)
                        /\ e.used = 0 /\ ~e.pending /\ (e.size # 0 <=> b \in myBuffers)
  BY <1>4, TakenBack
<1>7. myBuffers' = myBuffers
  BY DEF poolVars
<1>8. CASE Bound(k)
  <2>1. PICK d \in Cell : /\ d = FreeBuffer(IncUsed(memory[b]), b \in myBuffers)
                          /\ d.used = 1 /\ d.size # 0 /\ (d.pending <=> b \notin myBuffers)
    BY <1>4, HandedOver
  <2>2. PICK used \in [Buffers -> Cell] : used = [memory EXCEPT ![b] = IncUsed(memory[b])]
    BY <1>4, IncUsedCell DEF TypeOK
  <2>3. memory' = FreeAll(ReleaseAll(used, {o}), {b}) /\ bound' = [bound EXCEPT ![s][p] = b]
    BY <1>1, <1>2, <1>3, <1>8, <2>2 DEF Bound
  <2>4. used[b] = IncUsed(memory[b]) /\ \A c \in Buffers \ {b} : used[c] = memory[c]
    BY <1>4, <2>2 DEF TypeOK
  <2>5. memory' = [c \in Buffers |-> IF c = b THEN FreeBuffer(ReleaseAll(used, {o})[c], c \in myBuffers)
                                             ELSE ReleaseAll(used, {o})[c]]
    BY <2>3 DEF FreeAll
  <2>6. \A c \in Buffers : ReleaseAll(used, {o})[c] = IF c = o THEN BindRelease(used[c]) ELSE used[c]
    BY DEF ReleaseAll
  <2>7. /\ memory'[b] = d
        /\ \A c \in Buffers \ {b} : memory'[c] = IF c = o THEN BindRelease(memory[c]) ELSE memory[c]
    BY <1>4, <2>1, <2>4, <2>5, <2>6
  <2>8. /\ bound' \in [Stmts -> [Params -> Buffers \union {NoBuffer}]]
        /\ \A t \in Stmts, q \in Params : bound'[t][q] = IF t = s /\ q = p THEN b ELSE bound[t][q]
        /\ \A t \in Stmts \ {s} : bound'[t] = bound[t]
    BY <1>4, <2>3 DEF TypeOK
  <2>9. /\ CellsTell' /\ ParamsApart' /\ StreamsApart'
        /\ \A j : j \in OpenStreams' <=> j \in OpenStreams /\ j # k
        /\ \A c \in Buffers \ {b} : memory'[c] \in Cell
    <3>1. BoundInstead(k, s, p, b, d)
      BY <1>1, <1>3, <1>4, <1>5, <1>7, <2>1, <2>7, <2>8 DEF BoundInstead
    <3> QED
      BY <1>1, <3>1, BoundCells
  <2>10. memory' \in [Buffers -> Cell]
    <3>1. \A c \in Buffers : memory'[c] \in Cell
      BY <2>7, <2>9
    <3> QED
      BY <2>5, <3>1
  <2> QED
    BY <1>2, <1>5, <2>8, <2>9, <2>10
<1>9. CASE TooBig(k)
  <2>1. PICK used \in [Buffers -> Cell] : used = [memory EXCEPT ![b] = IncUsed(memory[b])]
    BY <1>4, IncUsedCell DEF TypeOK
  <2>2. used[b] = IncUsed(memory[b]) /\ \A c \in Buffers \ {b} : used[c] = memory[c]
    BY <1>4, <2>1 DEF TypeOK
  <2>3. PICK r : r = ReleaseAll(ReleaseAll(used, {o}), {b})
    OBVIOUS
  <2>4. /\ r[b] = BindRelease(IncUsed(memory[b]))
        /\ \A c \in Buffers \ {b} : r[c] = IF c = o THEN BindRelease(memory[c]) ELSE memory[c]
    BY <1>4, <2>2, <2>3 DEF ReleaseAll
  <2>5. r = [c \in Buffers |-> r[c]]
    BY <2>3 DEF ReleaseAll
  <2>6. PICK f : f = [r EXCEPT ![b] = Refused(r[b])]
    OBVIOUS
  <2>7. f[b] = Refused(r[b]) /\ \A c \in Buffers \ {b} : f[c] = r[c]
    BY <1>4, <2>5, <2>6
  <2>8. memory' = FreeAll(f, {b}) /\ bound' = [bound EXCEPT ![s][p] = NoBuffer]
    BY <1>1, <1>2, <1>3, <1>9, <2>1, <2>3, <2>6 DEF TooBig
  <2>9. memory' = [c \in Buffers |-> IF c = b THEN FreeBuffer(f[c], c \in myBuffers) ELSE f[c]]
    BY <2>8 DEF FreeAll
  <2>10. /\ memory'[b] = e
         /\ \A c \in Buffers \ {b} : memory'[c] = IF c = o THEN BindRelease(memory[c]) ELSE memory[c]
    BY <1>4, <1>6, <2>4, <2>7, <2>9
  <2>11. /\ bound' \in [Stmts -> [Params -> Buffers \union {NoBuffer}]]
         /\ \A t \in Stmts, q \in Params :
               bound'[t][q] = IF t = s /\ q = p THEN NoBuffer ELSE bound[t][q]
         /\ \A t \in Stmts \ {s} : bound'[t] = bound[t]
    BY <2>8 DEF TypeOK
  <2>12. /\ CellsTell' /\ ParamsApart' /\ StreamsApart'
         /\ \A j : j \in OpenStreams' <=> j \in OpenStreams /\ j # k
         /\ \A c \in Buffers \ {b} : memory'[c] \in Cell
    <3>1. BoundInstead(k, s, p, NoBuffer, e)
      BY <1>1, <1>3, <1>4, <1>5, <1>6, <1>7, <2>10, <2>11 DEF BoundInstead
    <3> QED
      BY <1>1, <3>1, BoundCells
  <2>13. memory' \in [Buffers -> Cell]
    <3>1. \A c \in Buffers : memory'[c] \in Cell
      BY <2>10, <2>12
    <3> QED
      BY <2>9, <3>1
  <2> QED
    BY <1>2, <1>5, <2>11, <2>12, <2>13
<1>10. CASE NotBound(k)
  <2>1. PICK f : f = [memory EXCEPT ![b] = Refused(BindRelease(IncUsed(memory[b])))]
    OBVIOUS
  <2>2. f[b] = Refused(BindRelease(IncUsed(memory[b]))) /\ \A c \in Buffers \ {b} : f[c] = memory[c]
    BY <1>4, <2>1 DEF TypeOK
  <2>3. memory' = FreeAll(f, {b}) /\ UNCHANGED bound
    BY <1>1, <1>10, <2>1 DEF NotBound
  <2>4. memory' = [c \in Buffers |-> IF c = b THEN FreeBuffer(f[c], c \in myBuffers) ELSE f[c]]
    BY <2>3 DEF FreeAll
  <2>5. memory'[b] = e /\ \A c \in Buffers \ {b} : memory'[c] = memory[c]
    BY <1>4, <1>6, <2>2, <2>4
  <2>6. ParamsApart' /\ \A c : Read(c)' <=> Read(c)
    BY <2>3, ParamsSame
  <2>7. /\ StreamsApart'
        /\ \A j : j \in OpenStreams' <=> j \in OpenStreams /\ j # k
        /\ \A c \in Buffers : Filled(c)' <=> Filled(c) /\ b # c
    BY <1>1, <1>5, StreamGone
  <2>8. CellsTell'
    <3> SUFFICES ASSUME NEW c \in Buffers PROVE CellTells(c)'
      BY DEF CellsTell
    <3>1. CASE c = b
      BY <1>4, <1>6, <1>7, <2>5, <2>6, <2>7, <3>1 DEF CellTells
    <3>2. CASE c # b
      BY <1>7, <2>5, <2>6, <2>7, <3>2 DEF CellsTell, CellTells
    <3> QED
      BY <3>1, <3>2
  <2>9. memory' \in [Buffers -> Cell]
    <3>1. \A c \in Buffers : memory'[c] \in Cell
      BY <2>5, Cells
    <3> QED
      BY <2>4, <3>1
  <2> QED
    BY <1>5, <2>3, <2>6, <2>7, <2>8, <2>9 DEF TypeOK
<1> QED
  BY <1>8, <1>9, <1>10 DEF CloseStream

LEMMA CloseInv ==
  ASSUME IndInv, NEW k \in Streams, CloseStream(k), UNCHANGED <<poolVars, stmtVars, stepping, phase>>
  PROVE  IndInv'
<1> USE DEF IndInv
<1>1. k \in OpenStreams
  BY DEF CloseStream, OpenStreams
<1>2. PICK s \in Stmts : s = stream[k].stmt
  BY <1>1, OpenStream
<1>3. /\ CellsTell' /\ ParamsApart' /\ StreamsApart'
      /\ memory' \in [Buffers -> Cell]
      /\ stream' \in [Streams -> Stream \union {NoStream}]
      /\ bound' \in [Stmts -> [Params -> Buffers \union {NoBuffer}]]
      /\ \A j : j \in OpenStreams' <=> j \in OpenStreams /\ j # k
      /\ \A j \in Streams \ {k} : stream'[j] = stream[j]
      /\ \A t \in Stmts \ {s} : bound'[t] = bound[t]
  BY <1>1, <1>2, CloseCells
<1>4. TypeOK'
  BY <1>3 DEF TypeOK, poolVars, stmtVars
<1>5. state[s] = "open" /\ myHasBindings[s]
  BY <1>1, <1>2 DEF StatementsTell, Bare, TypeOK
<1>6. \A t \in Stmts \ {s} : Bare(t) => Bare(t)'
  BY <1>3 DEF Bare, OpenStreams
<1>7. StatementsTell'
  BY <1>5, <1>6 DEF StatementsTell, stmtVars
<1>8. PhaseTells'
  BY DEF PhaseTells, stmtVars, poolVars
<1> QED
  BY <1>3, <1>4, <1>7, <1>8

-----------------------------------------------------------------------------
(***************************************************************************)
(* The statements.                                                         *)
(***************************************************************************)
LEMMA BindValueInv ==
  ASSUME IndInv, NEW s \in Stmts, NEW p \in Params, NEW isNull \in BOOLEAN, BindValue(s, p, isNull)
  PROVE  IndInv'
<1> USE DEF IndInv
<1>1. PICK o : o = bound[s][p]
  OBVIOUS
<1>2. memory' = [c \in Buffers |-> IF c = o THEN BindRelease(memory[c]) ELSE memory[c]]
  BY <1>1 DEF BindValue, ReleaseAll
<1>3. /\ bound' \in [Stmts -> [Params -> Buffers \union {NoBuffer}]]
      /\ \A t \in Stmts, q \in Params :
            bound'[t][q] = IF t = s /\ q = p THEN NoBuffer ELSE bound[t][q]
      /\ \A t \in Stmts \ {s} : bound'[t] = bound[t]
  BY DEF BindValue, TypeOK
<1>4. /\ myHasBindings' = [myHasBindings EXCEPT ![s] = myHasBindings[s] \/ ~isNull]
      /\ UNCHANGED <<poolVars, stream, ready, state, myStepped, stepping, phase>>
      /\ stepping = NoStmt /\ phase = "open" /\ state[s] = "open"
  BY DEF BindValue
<1>5. /\ ParamsApart'
      /\ \A b \in Buffers : Read(b)' <=> b = NoBuffer \/ (Read(b) /\ bound[s][p] # b)
  <2>1. NoBuffer \in Buffers \union {NoBuffer}
    OBVIOUS
  <2> QED
    BY <1>3, <2>1, ParamPut
<1>6. /\ StreamsApart' /\ OpenStreams' = OpenStreams /\ \A b : Filled(b)' <=> Filled(b)
  BY <1>4, StreamsSame
<1>7. ASSUME NEW c \in Buffers PROVE CellTells(c)' /\ memory'[c] \in Cell
  <2>1. CASE c = o
    <3>1. o # NoBuffer
      BY <2>1
    <3> QED
      BY <1>1, <1>2, <1>4, <1>5, <1>6, <2>1, <3>1, ParamBuffer DEF CellTells, poolVars
  <2>2. CASE c # o
    BY <1>1, <1>2, <1>4, <1>5, <1>6, <2>2, Cells DEF CellsTell, CellTells, poolVars
  <2> QED
    BY <2>1, <2>2
<1>8. CellsTell' /\ memory' \in [Buffers -> Cell]
  BY <1>2, <1>7 DEF CellsTell
<1>9. myHasBindings' \in [Stmts -> BOOLEAN]
      /\ \A t \in Stmts : myHasBindings[t] => myHasBindings'[t]
  BY <1>4, ZenonT(60) DEF TypeOK
<1>10. TypeOK'
  BY <1>3, <1>4, <1>8, <1>9 DEF TypeOK, poolVars
<1>11. \A t \in Stmts : Bare(t) => Bare(t)'
  BY <1>3, <1>4, <1>6 DEF Bare
<1>12. StatementsTell'
  BY <1>4, <1>9, <1>11 DEF StatementsTell
<1>13. PhaseTells'
  BY <1>4 DEF PhaseTells
<1> QED
  BY <1>5, <1>6, <1>8, <1>10, <1>12, <1>13

(* Everything statement s has is given up.                                 *)
Emptied(s) ==
  /\ stream' = WithoutStreams(s)
  /\ bound' = Unbound(s)
  /\ memory' = [c \in Buffers |-> IF c \in Streamed(s) THEN FreeBuffer(memory[c], c \in myBuffers)
                                 ELSE IF c \in BoundIn(s) THEN BindRelease(memory[c]) ELSE memory[c]]

LEMMA EmptiedCells ==
  ASSUME IndInv, NEW s \in Stmts, Emptied(s), myBuffers' = myBuffers
  PROVE  /\ CellsTell' /\ ParamsApart' /\ StreamsApart'
         /\ memory' \in [Buffers -> Cell]
         /\ stream' \in [Streams -> Stream \union {NoStream}]
         /\ bound' \in [Stmts -> [Params -> Buffers \union {NoBuffer}]]
         /\ Bare(s)' /\ \A t \in Stmts : Bare(t) => Bare(t)'
<1> USE DEF IndInv
<1>1. /\ stream' \in [Streams -> Stream \union {NoStream}]
      /\ StreamsApart'
      /\ \A j : j \in OpenStreams' <=> j \in OpenStreams /\ stream[j].stmt # s
      /\ \A j \in OpenStreams' : stream'[j] = stream[j]
      /\ \A b \in Buffers : b \in Streamed(s) => Filled(b)
      /\ \A b \in Buffers : Filled(b)' <=> Filled(b) /\ b \notin Streamed(s)
  BY StreamsGone DEF Emptied
<1>2. /\ bound' \in [Stmts -> [Params -> Buffers \union {NoBuffer}]]
      /\ ParamsApart'
      /\ \A p \in Params : bound'[s][p] = NoBuffer
      /\ \A t \in Stmts \ {s} : bound'[t] = bound[t]
      /\ \A b \in Buffers : b \in BoundIn(s) => Read(b)
      /\ \A b \in Buffers : Read(b)' <=> Read(b) /\ b \notin BoundIn(s)
  BY ParamsGone DEF Emptied
<1>3. ASSUME NEW c \in Buffers PROVE CellTells(c)' /\ memory'[c] \in Cell
  <2>1. memory[c] \in Cell /\ CellTells(c)
    BY Cells DEF CellsTell
  <2>2. CASE c \in Streamed(s)
    <3>1. Filled(c) /\ ~Read(c) /\ memory[c].used = 1 /\ ~memory[c].pending /\ memory[c].size # 0
      BY <1>1, <2>1, <2>2 DEF CellTells
    <3>2. PICK d \in Cell : /\ d = FreeBuffer(memory[c], c \in myBuffers) /\ d.used = 0 /\ ~d.pending
                            /\ d.size # 0 <=> c \in myBuffers
      BY <2>1, <3>1, GivenUp
    <3>3. memory'[c] = d
      BY <2>2, <3>2 DEF Emptied
    <3> QED
      BY <1>1, <1>2, <2>2, <3>1, <3>2, <3>3 DEF CellTells
  <2>3. CASE c \in BoundIn(s) /\ c \notin Streamed(s)
    <3>1. /\ Read(c) /\ ~Filled(c) /\ memory[c].used = 1 /\ memory[c].size # 0
          /\ memory[c].pending <=> c \notin myBuffers
      BY <1>2, <2>1, <2>3 DEF CellTells
    <3>2. /\ BindRelease(memory[c]) \in Cell /\ BindRelease(memory[c]).used = 0
          /\ ~BindRelease(memory[c]).pending
          /\ BindRelease(memory[c]).size # 0 <=> c \in myBuffers
      BY <2>1, <3>1, ReleasedCell
    <3>3. memory'[c] = BindRelease(memory[c])
      BY <2>3 DEF Emptied
    <3> QED
      BY <1>1, <1>2, <2>3, <3>1, <3>2, <3>3 DEF CellTells
  <2>4. CASE c \notin BoundIn(s) /\ c \notin Streamed(s)
    <3>1. memory'[c] = memory[c]
      BY <2>4 DEF Emptied
    <3> QED
      BY <1>1, <1>2, <2>1, <2>4, <3>1 DEF CellTells
  <2> QED
    BY <2>2, <2>3, <2>4
<1>4. CellsTell' /\ memory' \in [Buffers -> Cell]
  <2>1. memory' = [c \in Buffers |-> memory'[c]]
    BY DEF Emptied
  <2> QED
    BY <1>3, <2>1 DEF CellsTell
<1>5. Bare(s)' /\ \A t \in Stmts : Bare(t) => Bare(t)'
  BY <1>1, <1>2 DEF Bare
<1> QED
  BY <1>1, <1>2, <1>4, <1>5

(* Releasing parameters before streams, or after them, is the same.        *)
LEMMA EitherOrder ==
  ASSUME IndInv, NEW s \in Stmts
  PROVE  LET new == [c \in Buffers |->
                      IF c \in Streamed(s) THEN FreeBuffer(memory[c], c \in myBuffers)
                      ELSE IF c \in BoundIn(s) THEN BindRelease(memory[c]) ELSE memory[c]] IN
         /\ FreeAll(ReleaseAll(memory, BoundIn(s)), Streamed(s)) = new
         /\ ReleaseAll(FreeAll(memory, Streamed(s)), BoundIn(s)) = new
<1>1. \A c \in Buffers : ~(c \in Streamed(s) /\ c \in BoundIn(s))
  <2>1. \A c \in Buffers : c \in Streamed(s) => Filled(c)
    BY DEF Streamed, StreamsOf, Filled, OpenStreams
  <2>2. \A c \in Buffers : c \in BoundIn(s) => Read(c)
    BY DEF BoundIn, Read
  <2> QED
    BY <2>1, <2>2 DEF IndInv, CellsTell, CellTells
<1> QED
  BY <1>1 DEF FreeAll, ReleaseAll

(* A statement without bindings has nothing to give up.                    *)
LEMMA BareIsEmpty ==
  ASSUME IndInv, NEW s \in Stmts, Bare(s)
  PROVE  /\ BoundIn(s) = {} /\ Streamed(s) = {}
         /\ Unbound(s) = bound /\ WithoutStreams(s) = stream
<1>1. BoundIn(s) = {}
  BY DEF Bare, BoundIn
<1>2. StreamsOf(s) = {}
  BY DEF Bare, StreamsOf, OpenStreams
<1>3. bound[s] = [p \in Params |-> NoBuffer]
  BY DEF Bare, IndInv, TypeOK
<1>4. Unbound(s) = bound
  BY <1>3 DEF Unbound, IndInv, TypeOK
<1>5. WithoutStreams(s) = stream
  BY <1>2 DEF WithoutStreams, IndInv, TypeOK
<1> QED
  BY <1>1, <1>2, <1>4, <1>5 DEF Streamed

(* clear_bindings() leaves the statement with nothing, also when           *)
(* myHasBindings says that there is nothing to clear.                      *)
LEMMA ClearedCells ==
  ASSUME IndInv, NEW s \in Stmts, ClearBound(s), UNCHANGED poolVars
  PROVE  /\ CellsTell' /\ ParamsApart' /\ StreamsApart'
         /\ memory' \in [Buffers -> Cell]
         /\ stream' \in [Streams -> Stream \union {NoStream}]
         /\ bound' \in [Stmts -> [Params -> Buffers \union {NoBuffer}]]
         /\ myHasBindings' \in [Stmts -> BOOLEAN]
         /\ \A t \in Stmts \ {s} : myHasBindings'[t] = myHasBindings[t]
         /\ Bare(s)' /\ \A t \in Stmts : Bare(t) => Bare(t)'
<1> USE DEF IndInv
<1>1. myBuffers' = myBuffers
  BY DEF poolVars
<1>2. CASE myHasBindings[s]
  <2>1. Emptied(s)
    BY <1>2, EitherOrder DEF ClearBound, Emptied
  <2>2. myHasBindings' = [myHasBindings EXCEPT ![s] = FALSE]
    BY <1>2 DEF ClearBound
  <2>3. /\ myHasBindings' \in [Stmts -> BOOLEAN]
        /\ \A t \in Stmts \ {s} : myHasBindings'[t] = myHasBindings[t]
    BY <2>2 DEF TypeOK
  <2> QED
    BY <1>1, <2>1, <2>3, EmptiedCells
<1>3. CASE ~myHasBindings[s]
  <2>1. Bare(s)
    BY <1>3 DEF StatementsTell
  <2>2. UNCHANGED <<memory, bound, stream, myHasBindings>>
    BY <1>3 DEF ClearBound
  <2>3. \A t \in Stmts : Bare(t) => Bare(t)'
    BY <2>2 DEF Bare, OpenStreams
  <2>4. CellsTell' /\ ParamsApart' /\ StreamsApart'
    BY <1>1, <2>2 DEF CellsTell, CellTells, Filled, Read, ParamsApart, StreamsApart, OpenStreams
  <2> QED
    BY <2>1, <2>2, <2>3, <2>4 DEF TypeOK
<1> QED
  BY <1>2, <1>3

LEMMA ClearBindingsInv ==
  ASSUME IndInv, NEW s \in Stmts, ClearBindings(s)
  PROVE  IndInv'
<1> USE DEF IndInv
<1>1. /\ ClearBound(s) /\ state[s] = "open" /\ stepping = NoStmt /\ phase = "open"
      /\ UNCHANGED poolVars /\ UNCHANGED <<ready, state, myStepped, stepping, phase>>
  BY DEF ClearBindings
<1>2. /\ CellsTell' /\ ParamsApart' /\ StreamsApart'
      /\ memory' \in [Buffers -> Cell]
      /\ stream' \in [Streams -> Stream \union {NoStream}]
      /\ bound' \in [Stmts -> [Params -> Buffers \union {NoBuffer}]]
      /\ myHasBindings' \in [Stmts -> BOOLEAN]
      /\ \A t \in Stmts \ {s} : myHasBindings'[t] = myHasBindings[t]
      /\ Bare(s)' /\ \A t \in Stmts : Bare(t) => Bare(t)'
  BY <1>1, ClearedCells
<1>3. TypeOK'
  BY <1>1, <1>2 DEF TypeOK, poolVars
<1>4. StatementsTell'
  BY <1>1, <1>2 DEF StatementsTell
<1>5. PhaseTells'
  BY <1>1 DEF PhaseTells
<1> QED
  BY <1>2, <1>3, <1>4, <1>5

LEMMA ResetInv ==
  ASSUME IndInv, NEW s \in Stmts, NEW clearBindings \in BOOLEAN, Reset(s, clearBindings)
  PROVE  IndInv'
<1> USE DEF IndInv
<1>1. /\ state[s] = "open" /\ stepping = NoStmt /\ phase = "open"
      /\ ready' = [ready EXCEPT ![s] = ready[s] \/ myStepped[s]]
      /\ myStepped' = [myStepped EXCEPT ![s] = FALSE]
      /\ UNCHANGED poolVars /\ UNCHANGED <<state, stepping, phase>>
  BY DEF Reset
<1>2. ready[s] \/ myStepped[s]
  BY DEF StatementsTell
<1>3. ready' \in [Stmts -> BOOLEAN] /\ ready'[s] /\ \A t \in Stmts \ {s} : ready'[t] = ready[t]
  BY <1>1, <1>2, ZenonT(60) DEF TypeOK
<1>4. myStepped' \in [Stmts -> BOOLEAN] /\ \A t \in Stmts \ {s} : myStepped'[t] = myStepped[t]
  BY <1>1 DEF TypeOK
<1>5. /\ CellsTell' /\ ParamsApart' /\ StreamsApart'
      /\ memory' \in [Buffers -> Cell]
      /\ stream' \in [Streams -> Stream \union {NoStream}]
      /\ bound' \in [Stmts -> [Params -> Buffers \union {NoBuffer}]]
      /\ myHasBindings' \in [Stmts -> BOOLEAN]
      /\ \A t \in Stmts \ {s} : myHasBindings'[t] = myHasBindings[t]
      /\ \A t \in Stmts : Bare(t) => Bare(t)'
      /\ myHasBindings'[s] \/ Bare(s)'
  <2>1. CASE clearBindings
    BY <1>1, <2>1, ClearedCells DEF Reset
  <2>2. CASE ~clearBindings
    <3>1. UNCHANGED <<memory, bound, stream, myHasBindings>>
      BY <2>2 DEF Reset
    <3>2. \A t \in Stmts : Bare(t) => Bare(t)'
      BY <3>1 DEF Bare, OpenStreams
    <3>3. CellsTell' /\ ParamsApart' /\ StreamsApart'
      BY <1>1, <3>1 DEF CellsTell, CellTells, Filled, Read, ParamsApart, StreamsApart, OpenStreams, poolVars
    <3>4. myHasBindings[s] \/ Bare(s)
      BY DEF StatementsTell
    <3> QED
      BY <3>1, <3>2, <3>3, <3>4 DEF TypeOK
  <2> QED
    BY <2>1, <2>2
<1>6. TypeOK'
  BY <1>1, <1>3, <1>4, <1>5 DEF TypeOK, poolVars
<1>7. StatementsTell'
  BY <1>1, <1>3, <1>4, <1>5 DEF StatementsTell
<1>8. PhaseTells'
  BY <1>1 DEF PhaseTells
<1> QED
  BY <1>5, <1>6, <1>7, <1>8

(* Of a statement whose handle is cached or finalized nothing is left.     *)
LEMMA DisposedInv ==
  ASSUME IndInv, NEW s \in Stmts, Emptied(s), NEW x \in {"none", "cached"},
         UNCHANGED poolVars, UNCHANGED <<stepping, phase>>, phase # "closed", stepping # s,
         ready' \in [Stmts -> BOOLEAN], ready'[s], \A t \in Stmts \ {s} : ready'[t] = ready[t],
         state' = [state EXCEPT ![s] = x],
         myStepped' = [myStepped EXCEPT ![s] = FALSE],
         myHasBindings' = [myHasBindings EXCEPT ![s] = FALSE]
  PROVE  IndInv'
<1> USE DEF IndInv
<1>1. /\ CellsTell' /\ ParamsApart' /\ StreamsApart'
      /\ memory' \in [Buffers -> Cell]
      /\ stream' \in [Streams -> Stream \union {NoStream}]
      /\ bound' \in [Stmts -> [Params -> Buffers \union {NoBuffer}]]
      /\ Bare(s)' /\ \A t \in Stmts : Bare(t) => Bare(t)'
  BY EmptiedCells DEF poolVars
<1>2. state' \in [Stmts -> {"none", "open", "cached"}] /\ \A t \in Stmts \ {s} : state'[t] = state[t]
  BY DEF TypeOK
<1>3. /\ myStepped' \in [Stmts -> BOOLEAN] /\ \A t \in Stmts \ {s} : myStepped'[t] = myStepped[t]
      /\ myHasBindings' \in [Stmts -> BOOLEAN]
      /\ \A t \in Stmts \ {s} : myHasBindings'[t] = myHasBindings[t]
  BY DEF TypeOK
<1>4. TypeOK'
  BY <1>1, <1>2, <1>3 DEF TypeOK, poolVars
<1>5. StatementsTell'
  BY <1>1, <1>2, <1>3 DEF StatementsTell
<1>6. PhaseTells'
  BY <1>2 DEF PhaseTells, TypeOK
<1> QED
  BY <1>1, <1>4, <1>5, <1>6

LEMMA CacheHandleInv ==
  ASSUME IndInv, NEW s \in Stmts, CacheHandle(s)
  PROVE  IndInv'
<1> USE DEF IndInv
<1>1. /\ stepping = NoStmt /\ phase = "open"
      /\ ready' = [ready EXCEPT ![s] = ready[s] \/ myStepped[s]]
      /\ state' = [state EXCEPT ![s] = "cached"]
      /\ myStepped' = [myStepped EXCEPT ![s] = FALSE]
      /\ myHasBindings' = [myHasBindings EXCEPT ![s] = FALSE]
      /\ UNCHANGED poolVars /\ UNCHANGED <<stepping, phase>>
  BY DEF CacheHandle
<1>2. ready[s] \/ myStepped[s]
  BY DEF StatementsTell
<1>3. ready' \in [Stmts -> BOOLEAN] /\ ready'[s] /\ \A t \in Stmts \ {s} : ready'[t] = ready[t]
  BY <1>1, <1>2, Zenon DEF TypeOK
<1>4. Emptied(s)
  <2>1. CASE myHasBindings[s]
    BY <2>1, EitherOrder DEF CacheHandle, Emptied
  <2>2. CASE ~myHasBindings[s]
    <3>1. Bare(s)
      BY <2>2 DEF StatementsTell
    <3>2. BoundIn(s) = {} /\ Unbound(s) = bound
      BY <3>1, BareIsEmpty
    <3>3. memory' = FreeAll(memory, Streamed(s)) /\ bound' = bound /\ stream' = WithoutStreams(s)
      BY <2>2 DEF CacheHandle
    <3> QED
      BY <3>2, <3>3 DEF Emptied, FreeAll
  <2> QED
    BY <2>1, <2>2
<1>5. "cached" \in {"none", "cached"} /\ stepping # s /\ phase # "closed"
  BY <1>1
<1> QED
  BY <1>1, <1>3, <1>4, <1>5, DisposedInv

LEMMA FinalizeStatementInv ==
  ASSUME IndInv, NEW s \in Stmts, FinalizeStatement(s)
  PROVE  IndInv'
<1> USE DEF IndInv
<1>1. /\ memory' = ReleaseAll(FreeAll(memory, Streamed(s)), BoundIn(s))
      /\ stream' = WithoutStreams(s)
      /\ bound' = Unbound(s)
      /\ ready' = [ready EXCEPT ![s] = TRUE]
      /\ state' = [state EXCEPT ![s] = "none"]
      /\ myStepped' = [myStepped EXCEPT ![s] = FALSE]
      /\ myHasBindings' = [myHasBindings EXCEPT ![s] = FALSE]
      /\ UNCHANGED poolVars /\ UNCHANGED <<stepping, phase>>
  BY DEF FinalizeStatement
<1>2. ready' \in [Stmts -> BOOLEAN] /\ ready'[s] /\ \A t \in Stmts \ {s} : ready'[t] = ready[t]
  BY <1>1 DEF TypeOK
<1>3. Emptied(s)
  BY <1>1, EitherOrder DEF Emptied
<1>4. "none" \in {"none", "cached"} /\ stepping # s /\ phase # "closed"
  BY DEF FinalizeStatement, PhaseTells, TypeOK
<1> QED
  BY <1>1, <1>2, <1>3, <1>4, DisposedInv

(* A step that leaves buffers, streams and parameters alone.               *)
LEMMA BuffersSame ==
  ASSUME IndInv, UNCHANGED <<memory, poolVars, stream, bound>>
  PROVE  /\ CellsTell' /\ ParamsApart' /\ StreamsApart'
         /\ \A t \in Stmts : Bare(t)' <=> Bare(t)
BY DEF IndInv, CellsTell, CellTells, Filled, Read, ParamsApart, StreamsApart, OpenStreams, poolVars, Bare

LEMMA PrepareInv ==
  ASSUME IndInv, NEW s \in Stmts, Prepare(s)
  PROVE  IndInv'
<1> USE DEF IndInv
<1>1. /\ state' = [state EXCEPT ![s] = "open"]
      /\ myStepped' = [myStepped EXCEPT ![s] = FALSE]
      /\ myHasBindings' = [myHasBindings EXCEPT ![s] = FALSE]
      /\ UNCHANGED <<memory, poolVars, stream, bound, ready, stepping, phase>>
      /\ phase = "open" /\ stepping = NoStmt /\ state[s] # "open"
  BY DEF Prepare
<1>2. TypeOK'
  BY <1>1 DEF TypeOK, poolVars
<1>3. Bare(s) /\ ready[s]
  BY <1>1 DEF StatementsTell
<1>4. /\ CellsTell' /\ ParamsApart' /\ StreamsApart'
      /\ \A t \in Stmts : Bare(t)' <=> Bare(t)
  BY <1>1, BuffersSame
<1>5. StatementsTell'
  BY <1>1, <1>3, <1>4 DEF StatementsTell, TypeOK
<1>6. PhaseTells'
  BY <1>1 DEF PhaseTells
<1> QED
  BY <1>2, <1>4, <1>5, <1>6

LEMMA StepInv ==
  ASSUME IndInv, NEW s \in Stmts, PrepareStep(s) \/ Step(s) \/ StepCancelled(s)
  PROVE  IndInv'
<1> USE DEF IndInv
<1>1. /\ UNCHANGED <<memory, poolVars, stream, bound, state, myHasBindings, phase>>
      /\ phase = "open" /\ state[s] = "open"
      /\ stepping' = s \/ stepping' = NoStmt
      /\ ready' \in [Stmts -> BOOLEAN] /\ myStepped' \in [Stmts -> BOOLEAN]
      /\ \A t \in Stmts : ready[t] => ready'[t] \/ myStepped'[t]
      /\ \A t \in Stmts : myStepped[t] => myStepped'[t]
      /\ \A t \in Stmts \ {s} : ready'[t] = ready[t]
  <2>1. CASE PrepareStep(s)
    BY <2>1 DEF PrepareStep, stmtVars, TypeOK
  <2>2. CASE Step(s)
    <3>1. PICK runs \in BOOLEAN : ready' = [ready EXCEPT ![s] = ready[s] /\ ~runs]
      BY <2>2 DEF Step
    <3>2. ready' \in [Stmts -> BOOLEAN] /\ \A t \in Stmts \ {s} : ready'[t] = ready[t]
      BY <3>1, Zenon DEF TypeOK
    <3>3. /\ myStepped' \in [Stmts -> BOOLEAN] /\ myStepped'[s]
          /\ \A t \in Stmts \ {s} : myStepped'[t] = myStepped[t]
      BY <2>2 DEF Step, TypeOK
    <3>4. phase = "open" /\ state[s] = "open"
      BY <2>2 DEF Step, PhaseTells
    <3>5. \A t \in Stmts : ready[t] => ready'[t] \/ myStepped'[t]
      BY <3>2, <3>3
    <3>6. \A t \in Stmts : myStepped[t] => myStepped'[t]
      BY <3>3
    <3> QED
      BY <2>2, <3>2, <3>3, <3>4, <3>5, <3>6 DEF Step
  <2>3. CASE StepCancelled(s)
    BY <2>3 DEF StepCancelled, stmtVars, TypeOK, PhaseTells
  <2> QED
    BY <2>1, <2>2, <2>3
<1>2. TypeOK'
  BY <1>1 DEF TypeOK, poolVars
<1>3. /\ CellsTell' /\ ParamsApart' /\ StreamsApart'
      /\ \A t \in Stmts : Bare(t)' <=> Bare(t)
  BY <1>1, BuffersSame
<1>4. StatementsTell'
  BY <1>1, <1>3 DEF StatementsTell
<1>5. PhaseTells'
  BY <1>1 DEF PhaseTells
<1> QED
  BY <1>2, <1>3, <1>4, <1>5

LEMMA DisposeInv == IndInv /\ Dispose => IndInv'
<1> SUFFICES ASSUME IndInv, Dispose PROVE IndInv'
  OBVIOUS
<1> USE DEF IndInv
<1>1. /\ UNCHANGED <<memory, poolVars, stream, bound, stmtVars, stepping>>
      /\ phase' = "closing" /\ stepping = NoStmt
  BY DEF Dispose
<1>2. TypeOK'
  BY <1>1 DEF TypeOK, poolVars, stmtVars
<1>3. /\ CellsTell' /\ ParamsApart' /\ StreamsApart'
      /\ \A t \in Stmts : Bare(t)' <=> Bare(t)
  BY <1>1, BuffersSame
<1>4. StatementsTell'
  BY <1>1, <1>3 DEF StatementsTell, stmtVars
<1>5. PhaseTells'
  BY <1>1 DEF PhaseTells
<1> QED
  BY <1>2, <1>3, <1>4, <1>5

LEMMA FinalizeBuffersInv == IndInv /\ FinalizeBuffers => IndInv'
<1> SUFFICES ASSUME IndInv, FinalizeBuffers PROVE IndInv'
  OBVIOUS
<1> USE DEF IndInv
<1>1. /\ memory' = [b \in Buffers |-> IF b \in myBuffers THEN WrapperFree(memory[b]) ELSE memory[b]]
      /\ myBuffers' = {} /\ myBuffersTotalSize' = 0
      /\ phase' = "closed" /\ phase = "closing"
      /\ UNCHANGED <<stream, bound, stmtVars, stepping>>
      /\ \A s \in Stmts : state[s] = "none"
  BY DEF FinalizeBuffers
<1>2. \A s \in Stmts : Bare(s)
  BY <1>1 DEF StatementsTell
<1>3. \A b \in Buffers : ~Filled(b) /\ ~Read(b)
  BY <1>2, OpenStream DEF Bare, Filled, Read
<1>4. (\A b : Filled(b)' <=> Filled(b)) /\ (\A b : Read(b)' <=> Read(b)) /\ StreamsApart' /\ ParamsApart'
  BY <1>1, StreamsSame, ParamsSame
<1>5. ASSUME NEW b \in Buffers PROVE CellTells(b)' /\ memory'[b] \in Cell
  <2>1. memory[b] \in Cell /\ memory[b].used = 0 /\ CellTells(b)
    BY <1>3, Cells DEF CellsTell, CellTells
  <2>2. CASE b \in myBuffers
    <3>1. memory'[b] = Free
      BY <1>1, <2>1, <2>2, WrapperFreeCell
    <3> QED
      BY <1>1, <1>3, <1>4, <3>1, FreeCell DEF CellTells
  <2>3. CASE b \notin myBuffers
    BY <1>1, <1>3, <1>4, <2>1, <2>3 DEF CellTells
  <2> QED
    BY <2>2, <2>3
<1>6. CellsTell' /\ memory' \in [Buffers -> Cell]
  BY <1>1, <1>5 DEF CellsTell
<1>7. TypeOK'
  BY <1>1, <1>6 DEF TypeOK, stmtVars
<1>8. \A t \in Stmts : Bare(t) => Bare(t)'
  BY <1>1 DEF Bare, OpenStreams
<1>9. StatementsTell'
  BY <1>1, <1>8 DEF StatementsTell, stmtVars
<1>10. PhaseTells'
  BY <1>1 DEF PhaseTells, stmtVars
<1> QED
  BY <1>4, <1>6, <1>7, <1>9, <1>10

-----------------------------------------------------------------------------
(***************************************************************************)
(* The theorems.                                                           *)
(***************************************************************************)
LEMMA NextInv == IndInv /\ [Next]_vars => IndInv'
<1> SUFFICES ASSUME IndInv, [Next]_vars PROVE IndInv'
  OBVIOUS
<1>1. ASSUME NEW k \in Streams, StreamOperation(k) PROVE IndInv'
  <2>1. CASE \E s \in Stmts, p \in Params, n \in Requests : BindStream(s, p, k, n)
    BY <2>1, BindStreamInv
  <2>2. CASE Write(k) \/ WriteFails(k)
    BY <2>2, WriteInv, WriteFailsInv
  <2>3. CASE Close(k) \/ CloseUnclosed(k)
    BY <2>3, CloseInv DEF Close, CloseUnclosed
  <2> QED
    BY <1>1, <2>1, <2>2, <2>3 DEF StreamOperation
<1>2. ASSUME NEW s \in Stmts, StatementOperation(s) PROVE IndInv'
  <2>1. CASE Prepare(s) \/ PrepareStep(s) \/ Step(s) \/ StepCancelled(s)
    BY <2>1, PrepareInv, StepInv
  <2>2. CASE ClearBindings(s) \/ CacheHandle(s) \/ FinalizeStatement(s)
    BY <2>2, ClearBindingsInv, CacheHandleInv, FinalizeStatementInv
  <2>3. ASSUME NEW flag \in BOOLEAN, Reset(s, flag) PROVE IndInv'
    BY <2>3, ResetInv
  <2>4. ASSUME NEW flag \in BOOLEAN, NEW p \in Params, BindValue(s, p, flag) PROVE IndInv'
    BY <2>4, BindValueInv
  <2> QED
    BY <1>2, <2>1, <2>2, <2>3, <2>4 DEF StatementOperation
<1>3. CASE UNCHANGED vars
  <2>1. UNCHANGED <<memory, poolVars, stream, bound>> /\ UNCHANGED stmtVars /\ UNCHANGED <<stepping, phase>>
    BY <1>3 DEF vars
  <2>2. TypeOK'
    BY <2>1 DEF IndInv, TypeOK, poolVars, stmtVars
  <2>3. /\ CellsTell' /\ ParamsApart' /\ StreamsApart'
        /\ \A t \in Stmts : Bare(t)' <=> Bare(t)
    BY <2>1, BuffersSame
  <2>4. StatementsTell'
    BY <2>1, <2>3 DEF IndInv, StatementsTell, stmtVars
  <2>5. PhaseTells'
    BY <2>1 DEF IndInv, PhaseTells, poolVars, stmtVars
  <2> QED
    BY <2>2, <2>3, <2>4, <2>5 DEF IndInv
<1> QED
  BY <1>1, <1>2, <1>3, DisposeInv, FinalizeBuffersInv DEF Next

(* The inductive invariant: a buffer is at any time with one stream, with  *)
(* one parameter or at rest, its control bytes say which, and a statement  *)
(* that is not open, or that myHasBindings says has none, has no values.   *)
THEOREM Invariance == Spec => []IndInv
<1>1. Init => IndInv
  BY InitIndInv
<1>2. IndInv /\ [Next]_vars => IndInv'
  BY NextInv
<1> QED
  BY <1>1, <1>2, PTL DEF Spec

(* Every variable keeps its type; the count of users stays a byte.         *)
THEOREM TypeCorrect == Spec => []TypeOK
BY Invariance, PTL DEF IndInv

(* allocateBuffer() never hands out a buffer that a stream fills or that a *)
(* parameter of any statement is bound to.                                 *)
THEOREM StableValues == Spec => []ValuesAreStable
<1>1. IndInv => ValuesAreStable
  BY DEF IndInv, ValuesAreStable, CellsTell, CellTells, StreamsApart, ParamsApart
<1> QED
  BY <1>1, Invariance, PTL

(* The first control byte is the number of users, whoever counted last:    *)
(* Java, the wrapper or SQLite's destructor.                               *)
THEOREM ExactUseCount == Spec => []UseCountExact
<1>1. IndInv => UseCountExact
  BY DEF IndInv, UseCountExact, CellsTell, CellTells
<1> QED
  BY <1>1, Invariance, PTL

(* Native memory is freed by its last user and not before.                 *)
THEOREM OwnedMemory == Spec => []MemoryIsOwned
<1>1. IndInv => MemoryIsOwned
  BY DEF IndInv, MemoryIsOwned, CellsTell, CellTells
<1> QED
  BY <1>1, Invariance, PTL

(* A cached handle has no values and no streams and may be bound.          *)
THEOREM UnboundWhenCached == Spec => []CachedIsUnbound
<1>1. IndInv => CachedIsUnbound
  <2> SUFFICES ASSUME IndInv, NEW s \in Stmts, state[s] = "cached"
               PROVE  BoundIn(s) = {} /\ StreamsOf(s) = {} /\ ready[s]
    BY DEF CachedIsUnbound
  <2>1. Bare(s) /\ ready[s]
    BY DEF IndInv, StatementsTell
  <2> QED
    BY <2>1 DEF Bare, BoundIn, StreamsOf, OpenStreams
<1> QED
  BY <1>1, Invariance, PTL

(* A connection that was disposed of has no buffer left.                   *)
THEOREM AllFreed == Spec => [](phase = "closed" => \A b \in Buffers : memory[b].size = 0)
<1>1. IndInv => (phase = "closed" => \A b \in Buffers : memory[b].size = 0)
  <2> SUFFICES ASSUME IndInv, phase = "closed", NEW b \in Buffers PROVE memory[b].size = 0
    OBVIOUS
  <2>1. myBuffers = {} /\ \A s \in Stmts : Bare(s)
    BY DEF IndInv, PhaseTells, StatementsTell
  <2>2. ~Filled(b) /\ ~Read(b)
    BY <2>1, OpenStream DEF IndInv, Bare, Filled, Read
  <2> QED
    BY <2>1, <2>2 DEF IndInv, CellsTell, CellTells
<1> QED
  BY <1>1, Invariance, PTL
==============================================================================
