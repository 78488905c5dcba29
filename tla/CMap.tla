-------------------------------- MODULE CMap --------------------------------
(***************************************************************************)
(* Character maps: the tables of cmap.c, the reader of CMap files of       *)
(* cmap_read.c and the writer of CMap streams of cmap_write.c.             *)
(*                                                                         *)
(* A byte is in 0 .. ByteMax.  The tree of tables is kept as the function  *)
(* map from the paths that have an entry, and the set open of the paths    *)
(* that lead to a further table.  w is the cache: w.cmaps holds the        *)
(* CMaps, w.files the files that can be found, w.dead says that the        *)
(* program ended with an error.  A token is <<type, value>>.               *)
(***************************************************************************)
EXTENDS Integers, Sequences, FiniteSets, SequencesExt, FiniteSetsExt

CONSTANTS ByteMax,   \* 255 in the program
          FlushAt    \* records of one bfchar block, 100 in the program

B == ByteMax + 1
None == <<>>
IDENTITY == 0  CODE_TO_CID == 1  TO_UNICODE == 2  CID_TO_CODE == 3
CSI_IDENTITY == <<"Adobe", "Identity", 0>>
CSI_UNICODE  == <<"Adobe", "UCS", 0>>

CMap_new ==
    [name |-> "", type |-> CODE_TO_CID, wmode |-> 0, use |-> 0, csi |-> None, inMin |-> 65535, inMax |-> 0,
     outMin |-> 65535, outMax |-> 0, spaces |-> <<>>, table |-> FALSE, map |-> <<>>, open |-> {}]

SameCollection(a, b) == a # None /\ b # None /\ a[1] = b[1] /\ a[2] = b[2]
CMap_is_valid(w, cmap) ==
    /\ cmap.name # "" /\ cmap.type \in IDENTITY .. CID_TO_CODE /\ cmap.spaces # <<>>
    /\ cmap.type = IDENTITY \/ cmap.table
    /\ cmap.use = 0 \/ SameCollection(cmap.csi, w.cmaps[cmap.use].csi)

-----------------------------------------------------------------------------
(* Code spaces and ranges.                                                  *)

CMap_match_codespace(cmap, c) ==
    \E s \in ToSet(cmap.spaces) : /\ Len(s.lo) = Len(c)
                                  /\ \A i \in DOMAIN c : c[i] \in s.lo[i] .. s.hi[i]

\* Only the two ends of the new range are looked at.
Overlaps(s, lo, hi) ==
    \A i \in 1 .. Min({Len(s.lo), Len(lo)}) : lo[i] \in s.lo[i] .. s.hi[i] \/ hi[i] \in s.lo[i] .. s.hi[i]
CMap_add_codespacerange(cmap, lo, hi) ==
    IF \E s \in ToSet(cmap.spaces) : Overlaps(s, lo, hi) THEN cmap
    ELSE [cmap EXCEPT !.inMin = Min({@, Len(lo)}), !.inMax = Max({@, Len(lo)}),
                      !.spaces = Append(@, [lo |-> lo, hi |-> hi])]

check_range(cmap, lo, hi, dstdim) ==
    /\ Len(lo) >= 1 /\ dstdim >= 1
    /\ Front(lo) = Front(hi) /\ Last(lo) <= Last(hi)
    /\ CMap_match_codespace(cmap, lo) /\ CMap_match_codespace(cmap, hi)
Profiled(cmap, dim, dstdim) ==
    [cmap EXCEPT !.inMin = Min({@, dim}), !.inMax = Max({@, dim}), !.outMin = Min({@, dstdim}),
                 !.outMax = Max({@, dstdim}), !.table = TRUE]

\* The tables on the way to code; none is made below an entry.
Blocked(cmap, code) == {i \in 1 .. Len(code) - 1 : SubSeq(code, 1, i) \in DOMAIN cmap.map}
locate_tbl(cmap, code) ==
    LET last == Min({Len(code) - 1} \cup {i - 1 : i \in Blocked(cmap, code)})
    IN  [cmap EXCEPT !.open = @ \cup {SubSeq(code, 1, i) : i \in 1 .. last}]

CodesOf(lo, hi) == [i \in 1 .. (Last(hi) - Last(lo)) + 1 |-> Append(Front(lo), (Last(lo) + i) - 1)]
Put(cmap, p, kind, code) ==
    [cmap EXCEPT !.map = (p :> [kind |-> kind, code |-> code]) @@ @, !.open = @ \ {p}]
Cid(n) == <<n \div B, n % B>>

CMap_add_notdefrange(cmap, lo, hi, dst) ==
    LET ready == locate_tbl(Profiled(cmap, Len(lo), 2), lo)
        put(m, p) == IF p \in DOMAIN m.map THEN m ELSE Put(m, p, "notdef", Cid(dst))
    IN  IF ~check_range(cmap, lo, hi, 2) THEN cmap
        ELSE IF Blocked(cmap, lo) # {} THEN ready
        ELSE FoldLeft(put, ready, CodesOf(lo, hi))

\* A bug that Counted could have: the last byte wraps around and nothing is carried.
CountedLast(base, k) == Append(Front(base), (Last(base) + k) % B)
\* The last byte is counted up and carries over into the bytes before it.
Counted(base, k) ==
    LET add(b, a) == [out |-> <<(b + a.carry) % B>> \o a.out, carry |-> (b + a.carry) \div B]
    IN  FoldRight(add, base, [out |-> <<>>, carry |-> k]).out

\* A later mapping supersedes an earlier one, whose kind stays unless the new one is longer.
CMap_add_bfrange(cmap, lo, hi, base) ==
    LET ready == locate_tbl(Profiled(cmap, Len(lo), Len(base)), lo)
        put(m, p) ==
            LET code == Counted(base, Last(p) - Last(lo))
            IN  IF p \notin DOMAIN m.map THEN Put(m, p, "code", code)
                ELSE IF Len(m.map[p].code) < Len(base) THEN Put(m, p, "code", code)
                ELSE [m EXCEPT !.map[p].code = code]
    IN  IF ~check_range(cmap, lo, hi, Len(base)) THEN cmap
        ELSE IF Blocked(cmap, lo) # {} THEN ready
        ELSE FoldLeft(put, ready, CodesOf(lo, hi))

\* An earlier mapping stays; the CIDs are counted past it.
CMap_add_cidrange(cmap, lo, hi, base) ==
    LET ready == locate_tbl(Profiled(cmap, Len(lo), 2), lo)
        put(m, p) == IF p \in DOMAIN m.map \cup m.open THEN m
                     ELSE Put(m, p, "cid", Cid(base + (Last(p) - Last(lo))))
    IN  IF ~check_range(cmap, lo, hi, 2) THEN cmap
        ELSE IF Blocked(cmap, lo) # {} THEN ready
        ELSE FoldLeft(put, ready, CodesOf(lo, hi))

-----------------------------------------------------------------------------
(* Decoding.  The result is the output, the input left and whether the      *)
(* program ended.                                                           *)

bytes_consumed(cmap, in) ==
    LET whole == {i \in DOMAIN cmap.spaces :
                    LET s == cmap.spaces[i]
                    IN  Len(s.lo) <= Len(in) /\ \A k \in DOMAIN s.lo : in[k] \in s.lo[k] .. s.hi[k]}
    IN  IF whole = {} THEN cmap.inMin ELSE Len(cmap.spaces[Min(whole)].lo)

Rest(in, n) == SubSeq(in, n + 1, Len(in))
handle_undefined(cmap, in) ==
    [out |-> IF cmap.type = TO_UNICODE THEN <<ByteMax, ByteMax - 2>> ELSE <<0, 0>>,
     rest |-> Rest(in, bytes_consumed(cmap, in)), dead |-> FALSE]

\* The entry reached: when the input ends inside a table, the walk has gone one table too far.
Walked(cmap, in) ==
    LET ends == {k \in DOMAIN in : SubSeq(in, 1, k) \notin cmap.open}
    IN  IF ends # {} THEN [path |-> SubSeq(in, 1, Min(ends)), count |-> Min(ends)]
        ELSE [path |-> Append(in, Last(in)), count |-> Len(in)]

RECURSIVE CMap_decode_char(_, _, _)
CMap_decode_char(w, cmap, in) ==
    LET at == Walked(cmap, in)
        missing == ~cmap.table \/ at.path \notin DOMAIN cmap.map \cup cmap.open
    IN  IF cmap.type = IDENTITY
        THEN [out |-> SubSeq(in, 1, 2), rest |-> Rest(in, 2), dead |-> Len(in) % 2 = 1]
        ELSE IF missing
             THEN IF cmap.use # 0 THEN CMap_decode_char(w, w.cmaps[cmap.use], in) ELSE handle_undefined(cmap, in)
        ELSE IF at.path \in cmap.open THEN [out |-> <<>>, rest |-> in, dead |-> TRUE]
        ELSE [out |-> cmap.map[at.path].code, rest |-> Rest(in, at.count), dead |-> FALSE]

RECURSIVE CMap_decode(_, _, _)
CMap_decode(w, cmap, in) ==
    IF in = <<>> THEN [out |-> <<>>, dead |-> FALSE]
    ELSE LET one == CMap_decode_char(w, cmap, in)
             more == CMap_decode(w, cmap, one.rest)
         IN  IF one.dead THEN [out |-> <<>>, dead |-> TRUE]
             ELSE [out |-> <<one.out>> \o more.out, dead |-> more.dead]

CMap_set_usecmap(w, id, uid) ==
    LET cmap == w.cmaps[id]
        ucmap == w.cmaps[uid]
        add(m, s) == CMap_add_codespacerange(m, s.lo, s.hi)
    IN  IF \/ id = uid \/ ~CMap_is_valid(w, ucmap) \/ cmap.name = ucmap.name
           \/ cmap.csi # None /\ ~SameCollection(cmap.csi, ucmap.csi)
        THEN [w EXCEPT !.dead = TRUE]
        ELSE [w EXCEPT !.cmaps[id] = [FoldLeft(add, cmap, ucmap.spaces) EXCEPT !.use = uid]]

-----------------------------------------------------------------------------
(* The reader.  p.toks are the tokens not yet read, p.st the status and p.n *)
(* the last integer seen, the number of records that a section has.         *)

EndOfFile == <<"eof", "">>
Tok(p, k) == IF Len(p.toks) >= k THEN p.toks[k] ELSE EndOfFile
Read(p, k) == [p EXCEPT !.toks = Rest(@, k)]
Fail(p) == [p EXCEPT !.st = -1]
Type(tok) == tok[1]
IsOp(tok, v)   == Type(tok) = "op" /\ tok[2] = v
IsName(tok, v) == Type(tok) = "name" /\ tok[2] = v
Cur(p) == p.w.cmaps[p.id]
Upd(p, cmap) == [p EXCEPT !.w.cmaps[p.id] = cmap]

check_next_token(p, key) == IF IsOp(Tok(p, 1), key) \/ IsName(Tok(p, 1), key) THEN Read(p, 1) ELSE Fail(Read(p, 1))

get_coderange(p) ==
    Type(Tok(p, 1)) = "str" /\ Type(Tok(p, 2)) = "str" /\ Len(Tok(p, 1)[2]) = Len(Tok(p, 2)[2])

CodespaceRecord(p) ==
    IF get_coderange(p) THEN Read(Upd(p, CMap_add_codespacerange(Cur(p), Tok(p, 1)[2], Tok(p, 2)[2])), 2)
    ELSE Fail(p)

IsCID(tok) == Type(tok) = "int" /\ tok[2] \in 0 .. (B * B) - 1
NotdefRangeRecord(p) ==
    IF ~get_coderange(p) \/ Tok(p, 3) = EndOfFile THEN Fail(p)
    ELSE IF ~IsCID(Tok(p, 3)) THEN Read(p, 3)
    ELSE Read(Upd(p, CMap_add_notdefrange(Cur(p), Tok(p, 1)[2], Tok(p, 2)[2], Tok(p, 3)[2])), 3)
CidRangeRecord(p) ==
    IF ~get_coderange(p) \/ Tok(p, 3) = EndOfFile THEN Fail(p)
    ELSE IF ~IsCID(Tok(p, 3)) THEN Read(p, 3)
    ELSE Read(Upd(p, CMap_add_cidrange(Cur(p), Tok(p, 1)[2], Tok(p, 2)[2], Tok(p, 3)[2])), 3)

\* An array of codes, one for each code of the range.
handle_codearray(p, lo, count) ==
    LET one(q, i) ==
            LET code == Append(Front(lo), (Last(lo) + i) - 1)
            IN  IF q.st < 0 THEN q
                ELSE IF Tok(q, 1) = EndOfFile THEN Fail(q)
                ELSE IF Type(Tok(q, 1)) # "str" THEN [q EXCEPT !.w.dead = TRUE]
                ELSE Read(Upd(q, CMap_add_bfrange(Cur(q), code, code, Tok(q, 1)[2])), 1)
        after == FoldLeft(one, p, [i \in 1 .. count |-> i])
    IN  IF after.st < 0 THEN after ELSE check_next_token(after, "]")
BfRangeRecord(p) ==
    LET lo == Tok(p, 1)[2]
        hi == Tok(p, 2)[2]
    IN  IF ~get_coderange(p) \/ Tok(p, 3) = EndOfFile THEN Fail(p)
        ELSE CASE Type(Tok(p, 3)) = "str"  -> Read(Upd(p, CMap_add_bfrange(Cur(p), lo, hi, Tok(p, 3)[2])), 3)
               [] Type(Tok(p, 3)) = "mark" -> handle_codearray(Read(p, 3), lo, (Last(hi) - Last(lo)) + 1)
               [] OTHER -> Read(p, 3)

NotdefCharRecord(p) ==
    IF Tok(p, 2) = EndOfFile THEN Fail(p)
    ELSE IF Type(Tok(p, 1)) # "str" \/ ~IsCID(Tok(p, 2)) THEN Read(p, 2)
    ELSE Read(Upd(p, CMap_add_notdefrange(Cur(p), Tok(p, 1)[2], Tok(p, 1)[2], Tok(p, 2)[2])), 2)
CidCharRecord(p) ==
    IF Tok(p, 2) = EndOfFile THEN Fail(p)
    ELSE IF Type(Tok(p, 1)) # "str" \/ ~IsCID(Tok(p, 2)) THEN Read(p, 2)
    ELSE Read(Upd(p, CMap_add_cidrange(Cur(p), Tok(p, 1)[2], Tok(p, 1)[2], Tok(p, 2)[2])), 2)
BfCharRecord(p) ==
    IF Tok(p, 2) = EndOfFile THEN Fail(p)
    ELSE IF Type(Tok(p, 2)) = "name" THEN [p EXCEPT !.w.dead = TRUE]
    ELSE IF Type(Tok(p, 1)) # "str" \/ Type(Tok(p, 2)) # "str" THEN Read(p, 2)
    ELSE Read(Upd(p, CMap_add_bfrange(Cur(p), Tok(p, 1)[2], Tok(p, 1)[2], Tok(p, 2)[2])), 2)

Sections == {"codespacerange", "notdefrange", "notdefchar", "bfrange", "bfchar", "cidrange", "cidchar"}
Record(p, section) ==
    CASE section = "codespacerange" -> CodespaceRecord(p)
      [] section = "notdefrange" -> NotdefRangeRecord(p)
      [] section = "notdefchar" -> NotdefCharRecord(p)
      [] section = "bfrange" -> BfRangeRecord(p)
      [] section = "bfchar" -> BfCharRecord(p)
      [] section = "cidrange" -> CidRangeRecord(p)
      [] section = "cidchar" -> CidCharRecord(p)
DoSection(p, section) ==
    LET one(q, i) == IF q.st < 0 \/ q.w.dead THEN q ELSE Record(q, section)
        after == FoldLeft(one, p, [i \in 1 .. p.n |-> i])
    IN  IF after.st < 0 \/ after.w.dead THEN after ELSE check_next_token(after, "end" \o section)

RECURSIVE CsiEntries(_, _, _)
CsiEntries(p, csi, simple) ==
    LET key == Tok(p, 1)
        val == Tok(p, 2)
        slot == CHOOSE i \in 1 .. 3 : key[2] = <<"Registry", "Ordering", "Supplement">>[i]
        next == IF simple THEN Read(p, 2) ELSE check_next_token(Read(p, 2), "def")
    IN  IF key = EndOfFile \/ IsOp(key, IF simple THEN ">>" ELSE "end") THEN [p |-> Read(p, 1), csi |-> csi]
        ELSE IF Type(key) # "name" \/ key[2] \notin {"Registry", "Ordering", "Supplement"} \/ val = EndOfFile
             THEN CsiEntries(Read(p, 1), csi, simple)
        ELSE IF Type(val) # (IF slot = 3 THEN "int" ELSE "str") \/ next.st < 0 THEN [p |-> Fail(next), csi |-> csi]
        ELSE CsiEntries(next, (slot :> val[2]) @@ csi, simple)

do_cidsysteminfo(p) ==
    LET opens == {i \in DOMAIN p.toks : Type(p.toks[i]) = "mark" \/ IsOp(p.toks[i], "begin")}
        at == Min(opens)
        read == CsiEntries(Read(p, at), <<>>, Type(p.toks[at]) = "mark")
        after == check_next_token(read.p, "def")
    IN  IF opens = {} THEN Fail(Read(p, Len(p.toks)))
        ELSE IF read.p.st < 0 \/ after.st < 0 THEN Fail(after)
        ELSE IF DOMAIN read.csi = 1 .. 3 THEN Upd(after, [Cur(p) EXCEPT !.csi = read.csi])
        ELSE after

\* /Key value def
Defined(p, types) == Type(Tok(p, 2)) \in types /\ check_next_token(Read(p, 2), "def").st = 0

RECURSIVE CMap_parse(_), CMap_cache_find(_, _)
CMap_parse(p) ==
    LET tok == Tok(p, 1)
        found == CMap_cache_find(p.w, tok[2])
        set == CASE IsName(tok, "CMapName") -> [Cur(p) EXCEPT !.name = Tok(p, 2)[2]]
                 [] IsName(tok, "CMapType") -> [Cur(p) EXCEPT !.type = Tok(p, 2)[2]]
                 [] IsName(tok, "WMode")    -> [Cur(p) EXCEPT !.wmode = Tok(p, 2)[2]]
    IN  IF p.st < 0 \/ p.w.dead \/ tok = EndOfFile THEN p
        ELSE CMap_parse(
            IF Type(tok) = "name" /\ tok[2] \in {"CMapName", "CMapType", "WMode"}
              THEN IF Defined(p, IF tok[2] = "CMapName" THEN {"name", "str"} ELSE {"int"})
                   THEN Read(Upd(p, set), 3) ELSE Fail(p)
            ELSE IF IsName(tok, "CIDSystemInfo") THEN do_cidsysteminfo(Read(p, 1))
            ELSE IF Type(tok) = "name" /\ tok[2] \in {"Version", "UIDOffset", "XUID"} THEN Read(p, 1)
            ELSE IF Type(tok) = "name"
              THEN IF ~IsOp(Tok(p, 2), "usecmap") THEN Read(p, 2)
                   ELSE IF found.id = 0 THEN Fail(p)
                   ELSE Read([p EXCEPT !.w = IF found.w.dead THEN found.w
                                             ELSE CMap_set_usecmap(found.w, p.id, found.id)], 2)
            ELSE IF \E s \in Sections : IsOp(tok, "begin" \o s)
              THEN DoSection(Read(p, 1), CHOOSE s \in Sections : tok[2] = "begin" \o s)
            ELSE IF Type(tok) = "int" THEN Read([p EXCEPT !.n = tok[2]], 1)
            ELSE Read(p, 1))

Identity(name, wmode) ==
    CMap_add_codespacerange([CMap_new EXCEPT !.name = name, !.type = IDENTITY, !.wmode = wmode,
                                             !.csi = CSI_IDENTITY], <<0, 0>>, <<ByteMax, ByteMax>>)
CMap_cache_init(files) ==
    [cmaps |-> <<Identity("Identity-H", 0), Identity("Identity-V", 1)>>, files |-> files, dead |-> FALSE]

\* 0 stands for a CMap that is not found.  A CMap is in the cache while its file is read.
CMap_cache_find(w, name) ==
    LET known == {i \in DOMAIN w.cmaps : w.cmaps[i].name = name}
        id == Len(w.cmaps) + 1
        read == CMap_parse([w |-> [w EXCEPT !.cmaps = Append(@, CMap_new)], id |-> id,
                            toks |-> w.files[name].toks, st |-> 0, n |-> -1])
    IN  IF known # {} THEN [w |-> w, id |-> Min(known)]
        ELSE IF name \notin DOMAIN w.files THEN [w |-> w, id |-> 0]
        ELSE IF ~w.files[name].sig THEN [w |-> w, id |-> 0]
        ELSE [w |-> [read.w EXCEPT !.dead = @ \/ read.st < 0], id |-> id]

CMap_cache_add(w, cmap) ==
    IF ~CMap_is_valid(w, cmap) \/ \E m \in ToSet(w.cmaps) : m.name = cmap.name THEN [w EXCEPT !.dead = TRUE]
    ELSE [w EXCEPT !.cmaps = Append(@, cmap)]

-----------------------------------------------------------------------------
(* The writer.                                                              *)

BLOCK_LEN_MIN == 2
Shown(cmap, p) == p \in DOMAIN cmap.map /\ p \notin cmap.open /\ cmap.map[p].kind \in {"cid", "code"}
Follows(cmap, p, q) ==
    LET a == cmap.map[p].code
        b == cmap.map[q].code
    IN  Len(a) = Len(b) /\ Front(a) = Front(b) /\ Last(a) < ByteMax /\ Last(a) + 1 = Last(b)
block_count(cmap, path, c) ==
    LET at(k) == Append(path, c + k)
        breaks == {k \in 1 .. ByteMax - c : ~(Shown(cmap, at(k - 1)) /\ Shown(cmap, at(k)) /\ Follows(cmap, at(k - 1), at(k)))}
    IN  IF breaks = {} THEN ByteMax - c ELSE Min(breaks) - 1

Str(v) == <<"str", v>>
Op(v)  == <<"op", v>>
Nm(v)  == <<"name", v>>
Num(n) == <<"int", n>>
Section(name, recs) == <<Num(Len(recs)), Op("begin" \o name)>> \o FlattenSeq(recs) \o <<Op("end" \o name)>>
Flush(g) == [g EXCEPT !.pend = <<>>, !.toks = @ \o Section("bfchar", g.pend)]

\* g.pend are the single mappings not yet written; ranges wait for the end of their table.
RECURSIVE write_map(_, _, _)
write_map(cmap, path, g0) ==
    LET one(a, c) ==
            LET p == Append(path, c)
                n == block_count(cmap, path, c)
                b == IF p \in cmap.open THEN [a EXCEPT !.g = write_map(cmap, p, @)]
                     ELSE IF ~Shown(cmap, p) THEN a
                     ELSE IF n >= BLOCK_LEN_MIN
                          THEN [a EXCEPT !.next = c + n + 1,
                                         !.blocks = Append(@, <<Str(p), Str(Append(path, c + n)),
                                                                Str(cmap.map[p].code)>>)]
                     ELSE [a EXCEPT !.g.pend = Append(@, <<Str(p), Str(cmap.map[p].code)>>)]
            IN  IF c < a.next THEN a ELSE IF Len(b.g.pend) >= FlushAt THEN [b EXCEPT !.g = Flush(@)] ELSE b
        all == FoldLeft(one, [g |-> g0, blocks |-> <<>>, next |-> 0], [i \in 1 .. B |-> i - 1])
        flushed == IF all.g.pend = <<>> THEN all.g ELSE Flush(all.g)
    IN  IF all.blocks = <<>> THEN all.g
        ELSE [flushed EXCEPT !.toks = @ \o Section("bfrange", all.blocks)]

CsiTokens(csi) == <<Nm("CIDSystemInfo"), <<"mark", "<<">>, Nm("Registry"), Str(csi[1]), Nm("Ordering"), Str(csi[2]),
                    Nm("Supplement"), Num(csi[3]), Op(">>"), Op("def")>>
CMapHeader(cmap, csi) ==
    <<Nm("CIDInit"), Nm("ProcSet"), Op("findresource"), Op("begin"), Num(12), Op("dict"), Op("begin"), Op("begincmap")>>
    \o <<Nm("CMapName"), Nm(cmap.name), Op("def"), Nm("CMapType"), Num(cmap.type), Op("def")>>
    \o (IF cmap.wmode # 0 /\ cmap.type # TO_UNICODE THEN <<Nm("WMode"), Num(cmap.wmode), Op("def")>> ELSE <<>>)
    \o CsiTokens(csi)

\* No stream for an invalid CMap and for an identity; a CMap that uses another one is refused.
CMap_create_stream(w, cmap) ==
    LET csi == IF cmap.csi # None THEN cmap.csi ELSE IF cmap.type # TO_UNICODE THEN CSI_IDENTITY ELSE CSI_UNICODE
        space(s) == <<Str(s.lo), Str(s.hi)>>
        body == write_map(cmap, <<>>, [pend |-> <<>>, toks |-> CMapHeader(cmap, csi)
                    \o Section("codespacerange", [i \in DOMAIN cmap.spaces |-> space(cmap.spaces[i])])])
        done == IF cmap.table /\ body.pend # <<>> THEN Flush(body) ELSE body
    IN  IF ~CMap_is_valid(w, cmap) \/ cmap.type = IDENTITY THEN [made |-> FALSE, dead |-> FALSE, toks |-> <<>>]
        ELSE IF cmap.use # 0 THEN [made |-> FALSE, dead |-> TRUE, toks |-> <<>>]
        ELSE [made |-> TRUE, dead |-> FALSE,
              toks |-> done.toks \o <<Op("endcmap"), Op("CMapName"), Op("currentdict"), Nm("CMap"),
                                      Op("defineresource"), Op("pop"), Op("end"), Op("end")>>]
=============================================================================
