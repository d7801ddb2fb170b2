------------------------------- MODULE LuaDump -------------------------------
(* Precompiled code: ldump.c writes a function as a sequence of blocks of    *)
(* bytes, lundump.c reads one back, through the buffered input of lzio.c.    *)
(* A byte is below Base; integers, sizes, instructions and numbers have two. *)
EXTENDS Integers, Sequences, SequencesExt, FiniteSets

CONSTANTS
  Base,     \* number of bytes
  Header,   \* the blocks that DumpHeader writes
  NULL      \* no string

Mark == Base - 1    \* the byte 0xFF
Byte(x) == <<<<x>>>>
Word(x) == <<x % Base, x \div Base>>
Int_(x) == <<Word(x)>>
Vector(xs) == <<FlattenSeq([i \in DOMAIN xs |-> Word(xs[i])])>>

-----------------------------------------------------------------------------
(* ldump.c *)

DumpString(s) ==
  LET size == Len(s) + 1
  IN IF s = NULL THEN Byte(0)
     ELSE (IF size < Mark THEN Byte(size) ELSE Byte(Mark) \o Int_(size)) \o <<s>>

tag == [nil |-> 0, boolean |-> 1, float |-> 2, integer |-> 3, string |-> 4]
DumpConstant(o) ==
  Byte(tag[o.type])
  \o (CASE o.type = "nil" -> <<>> [] o.type = "boolean" -> Byte(o.value)
        [] o.type = "string" -> DumpString(o.value) [] OTHER -> Int_(o.value))

\* n elements, each dumped by Dump, behind their number.
Counted(xs, Dump(_)) == Int_(Len(xs)) \o FlattenSeq([i \in DOMAIN xs |-> Dump(xs[i])])
Kept(xs, strip) == IF strip THEN <<>> ELSE xs

DumpDebug(f, strip) ==
  Int_(Len(Kept(f.lineinfo, strip))) \o Vector(Kept(f.lineinfo, strip))
  \o Counted(Kept(f.locvars, strip),
             LAMBDA v : DumpString(v.varname) \o Int_(v.startpc) \o Int_(v.endpc))
  \o Counted(Kept(f.upvalues, strip), LAMBDA u : DumpString(u.name))

\* A nested function leaves out the source that it shares with its parent.
RECURSIVE DumpFunction(_, _, _)
DumpFunction(f, psource, strip) ==
  DumpString(IF strip \/ f.source = psource THEN NULL ELSE f.source)
  \o Int_(f.linedefined) \o Int_(f.lastlinedefined)
  \o Byte(f.numparams) \o Byte(f.is_vararg) \o Byte(f.maxstacksize)
  \o Int_(Len(f.code)) \o Vector(f.code)
  \o Counted(f.k, DumpConstant)
  \o Counted(f.upvalues, LAMBDA u : Byte(u.instack) \o Byte(u.idx))
  \o Counted(f.p, LAMBDA g : DumpFunction(g, f.source, strip))
  \o DumpDebug(f, strip)

\* The writer gets every block that is not empty, until it fails (with block number fails).
luaU_dump(f, strip, fails) ==
  LET blocks == SelectSeq(Header \o Byte(Len(f.upvalues)) \o DumpFunction(f, NULL, strip), LAMBDA b : b # <<>>)
  IN IF fails \in DOMAIN blocks THEN SubSeq(blocks, 1, fails - 1) ELSE blocks

-----------------------------------------------------------------------------
(* lzio.c: z is [n, blocks, ok]: the first n bytes of the first block are    *)
(* used up; the reader gives the blocks. The input ends with an empty block  *)
(* or with the last one; ok is FALSE after that.                             *)

luaZ_init(blocks) == [n |-> 0, blocks |-> blocks, ok |-> TRUE]
AtEnd(z) == z.blocks = <<>> \/ (z.blocks # <<>> /\ Head(z.blocks) = <<>>)
advanced_Whole(z, m) == [z EXCEPT !.n = 0, !.blocks = Tail(@)]
advanced(z, m) ==
  IF z.n + m = Len(Head(z.blocks)) THEN [z EXCEPT !.n = 0, !.blocks = Tail(@)] ELSE [z EXCEPT !.n = @ + m]
Zeros(n) == <<>> \o [i \in 1..n |-> 0]
\* The next n bytes; all loads fail once one was truncated.
RECURSIVE luaZ_read(_, _)
luaZ_read(z, n) ==
  LET block == Head(z.blocks)
      m == IF n <= Len(block) - z.n THEN n ELSE Len(block) - z.n
      rest == luaZ_read(advanced(z, m), n - m)
  IN IF n = 0 THEN <<<<>>, z>>
     ELSE IF ~ z.ok \/ AtEnd(z) THEN <<Zeros(n), [z EXCEPT !.ok = FALSE]>>
     ELSE <<SubSeq(block, z.n + 1, z.n + m) \o rest[1], rest[2]>>

-----------------------------------------------------------------------------
(* lundump.c: a load gives what it read and the input behind it              *)

LoadByte(z) == LET r == luaZ_read(z, 1) IN <<r[1][1], r[2]>>
LoadInt(z) == LET r == luaZ_read(z, 2) IN <<r[1][1] + Base * r[1][2], r[2]>>
LoadString(z) ==
  LET b == LoadByte(z)
      w == LoadInt(b[2])
      size == IF b[1] = Mark THEN w ELSE b
  IN IF size[1] = 0 THEN <<NULL, size[2]>> ELSE luaZ_read(size[2], size[1] - 1)
Repeat(n, Load(_), z) ==
  FoldLeft(LAMBDA r, i : LET x == Load(r[2]) IN <<Append(r[1], x[1]), x[2]>>, <<<<>>, z>>, [i \in 1..n |-> i])
LoadCounted(z, Load(_)) == LET n == LoadInt(z) IN Repeat(n[1], Load, n[2])

LoadConstant(z) ==
  LET t == LoadByte(z)
      types == {x \in DOMAIN tag : tag[x] = t[1]}
      type == IF types = {} THEN "nil" ELSE CHOOSE x \in types : TRUE
      v == CASE type = "nil" -> <<0, t[2]>> [] type = "boolean" -> LoadByte(t[2])
             [] type = "string" -> LoadString(t[2]) [] OTHER -> LoadInt(t[2])
  IN <<[type |-> type, value |-> v[1]], v[2]>>
LoadUpvalue(z) ==
  LET instack == LoadByte(z)
      idx == LoadByte(instack[2])
  IN <<[instack |-> instack[1], idx |-> idx[1], name |-> NULL], idx[2]>>
LoadLocal(z) ==
  LET varname == LoadString(z)
      startpc == LoadInt(varname[2])
      endpc == LoadInt(startpc[2])
  IN <<[varname |-> varname[1], startpc |-> startpc[1], endpc |-> endpc[1]], endpc[2]>>
named(upvalues, names) ==
  [i \in DOMAIN upvalues |-> IF i \in DOMAIN names THEN [upvalues[i] EXCEPT !.name = names[i]] ELSE upvalues[i]]

RECURSIVE LoadFunction(_, _)
LoadFunction(z, psource) ==
  LET name == LoadString(z)
      source == IF name[1] = NULL THEN psource ELSE name[1]
      linedefined == LoadInt(name[2])
      lastlinedefined == LoadInt(linedefined[2])
      numparams == LoadByte(lastlinedefined[2])
      is_vararg == LoadByte(numparams[2])
      maxstacksize == LoadByte(is_vararg[2])
      code == LoadCounted(maxstacksize[2], LoadInt)
      k == LoadCounted(code[2], LoadConstant)
      upvalues == LoadCounted(k[2], LoadUpvalue)
      p == LoadCounted(upvalues[2], LAMBDA z1 : LoadFunction(z1, source))
      lineinfo == LoadCounted(p[2], LoadInt)
      locvars == LoadCounted(lineinfo[2], LoadLocal)
      names == LoadCounted(locvars[2], LoadString)
  IN <<[source |-> source, linedefined |-> linedefined[1], lastlinedefined |-> lastlinedefined[1],
        numparams |-> numparams[1], is_vararg |-> is_vararg[1], maxstacksize |-> maxstacksize[1],
        code |-> code[1], k |-> k[1], upvalues |-> named(upvalues[1], names[1]), p |-> p[1],
        lineinfo |-> lineinfo[1], locvars |-> locvars[1]], names[2]>>

\* The first byte has told that the chunk is precompiled; the others of the header must be
\* the same as this program's.
checkHeader(z) ==
  LET n == Len(FlattenSeq(Header))
      r == luaZ_read(z, n)
  IN <<r[1] = FlattenSeq(Header), r[2]>>
luaU_undump(blocks) ==
  LET h == checkHeader(luaZ_init(blocks))
      nupvalues == LoadByte(h[2])
      f == LoadFunction(nupvalues[2], NULL)
  IN IF ~ h[2].ok THEN <<"truncated">>
     ELSE IF ~ h[1] THEN <<"mismatch">>
     ELSE IF ~ f[2].ok THEN <<"truncated">>
     ELSE <<f[1], nupvalues[1]>>

-----------------------------------------------------------------------------
\* Without debug information a function has no names, no lines and no source.
RECURSIVE Stripped(_)
Stripped(f) ==
  [f EXCEPT !.source = NULL, !.lineinfo = <<>>, !.locvars = <<>>,
            !.upvalues = [i \in DOMAIN @ |-> [@[i] EXCEPT !.name = NULL]],
            !.p = [i \in DOMAIN @ |-> Stripped(@[i])]]

\* A function comes back as it was, however the bytes are cut into blocks; a dump that the
\* writer did not finish is recognised, and one with another header is refused.
Restores(f, strip) ==
  LET blocks == luaU_dump(f, strip, 0)
      bytes == FlattenSeq(blocks)
      back == <<IF strip THEN Stripped(f) ELSE f, Len(f.upvalues)>>
      Cut(n) == <<SubSeq(bytes, 1, n), SubSeq(bytes, n + 1, Len(bytes))>>
      Changed(i) == [bytes EXCEPT ![i] = (@ + 1) % Base]
  IN /\ luaU_undump(blocks) = back
     /\ \A n \in {1, 5, 10, 25, Len(bytes) - 1} : luaU_undump(Cut(n)) = back
     /\ luaU_undump([i \in DOMAIN bytes |-> <<bytes[i]>>]) = back
     /\ \A n \in 1..Len(blocks) : luaU_undump(luaU_dump(f, strip, n)) = <<"truncated">>
     /\ \A i \in 2..Len(FlattenSeq(Header)) : luaU_undump(<<Changed(i)>>) = <<"mismatch">>
=============================================================================
