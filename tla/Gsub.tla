-------------------------------- MODULE Gsub --------------------------------
(***************************************************************************)
(* Glyph substitution: the option language that selects scripts, languages *)
(* and features (otl_opt.c), the GSUB table of a font and how its          *)
(* substitutions are selected, applied and, for ToUnicode, undone          *)
(* (tt_gsub.c).  A tag is a sequence of four characters, two to a word of  *)
(* the file.                                                               *)
(***************************************************************************)
EXTENDS OpenType

Space == 32  Bang == 33  Amp == 38  Open == 40  Close == 41  Star == 42  Colon == 58
Query == 63  Under == 95  Bar == 124

Wild == <<Query, Query, Query, Query>>
Nuls == <<0, 0, 0, 0>>
ANY  == <<Star>>
Dflt == <<100, 102, 108, 116>>
FourUnders == <<Under, Under, Under, Under>>

-----------------------------------------------------------------------------
(* otl_opt.c                                                                *)

RECURSIVE match_expr(_, _)
match_expr(e, key) ==
    LET leaf  == \A i \in 1 .. 4 : e.data[i] \in {Query, key[i]}
        left  == e.left = None \/ match_expr(e.left[1], key)
        right == e.right # None /\ match_expr(e.right[1], key)
        value == IF e.left = None /\ e.right = None THEN leaf
                 ELSE IF e.right = None THEN left
                 ELSE IF e.and THEN left /\ right ELSE left \/ right
    IN  value # e.not

bt_new_tree == [not |-> FALSE, and |-> FALSE, left |-> None, right |-> None, data |-> Nuls]

TagChar(c) == c \in {Space, Query, Under} \cup (48 .. 57) \cup (65 .. 90) \cup (97 .. 122)

\* The tree that is built: curr alone, or curr to the right of what came before
\* an operator.  "&" sets the bit that negates the node, not the one for "and".
Root(st) == IF st.before = None THEN st.curr
            ELSE [bt_new_tree EXCEPT !.not = st.negated, !.left = st.before, !.right = <<st.curr>>]

\* A tree and what is left of the string, or None at a syntax error.
RECURSIVE ParseOn(_, _)
ParseOn(p, st) ==
    LET c     == p[1]
        rest  == Tail(p)
        inner == ParseOn(rest, [before |-> None, negated |-> FALSE, curr |-> bt_new_tree])
    IN  CASE p = <<>> \/ c = Close -> <<[tree |-> Root(st), rest |-> p]>>
          [] c = Bang -> ParseOn(rest, [st EXCEPT !.curr.not = ~st.curr.and])
          [] c = Open ->
                 IF rest = <<>> \/ inner = None \/ inner[1].rest = <<>> THEN None
                 ELSE LET t == inner[1].tree
                      IN  ParseOn(Tail(inner[1].rest),
                                  [st EXCEPT !.curr.left = t.left, !.curr.right = t.right,
                                             !.curr.data = t.data])
          [] c \in {Bar, Amp} ->
                 ParseOn(rest, [before |-> <<Root(st)>>, negated |-> c = Amp, curr |-> bt_new_tree])
          [] c = Star -> ParseOn(rest, [st EXCEPT !.curr.data = Wild])
          [] OTHER ->
                 IF Len(p) < 4 \/ \E i \in 1 .. 4 : ~TagChar(p[i]) THEN None
                 ELSE ParseOn(SubSeq(p, 5, Len(p)),
                        [st EXCEPT !.curr.data = [i \in 1 .. 4 |-> IF p[i] = Under THEN Space ELSE p[i]]])

parse_expr(p) ==
    IF p = <<>> THEN None
    ELSE ParseOn(p, [before |-> None, negated |-> FALSE, curr |-> bt_new_tree])

\* No rule, also one that could not be read, matches everything.
otl_parse_optstring(str) == LET r == parse_expr(str) IN IF r = None THEN None ELSE <<r[1].tree>>
otl_match_optrule(rule, tag) == rule = None \/ match_expr(rule[1], tag)

-----------------------------------------------------------------------------
(* The common tables of OpenType layout.                                    *)

clt_read_record(f, p) ==
    [tag |-> <<UShort(f, p) \div 256, UShort(f, p) % 256, UShort(f, p + 2) \div 256, UShort(f, p + 2) % 256>>,
     offset |-> UShort(f, p + 4)]
clt_read_range(f, p) == [first |-> UShort(f, p), last |-> UShort(f, p + 2), start |-> UShort(f, p + 4)]
clt_read_record_list(f, p) == [i \in 1 .. UShort(f, p) |-> clt_read_record(f, p + 2 + 6 * (i - 1))]
clt_read_number_list(f, p) == UShorts(f, p + 2, UShort(f, p))
clt_read_script_table(f, p) == [dflt |-> UShort(f, p), langs |-> clt_read_record_list(f, p + 2)]
clt_read_langsys_table(f, p) == [req |-> UShort(f, p + 2), features |-> clt_read_number_list(f, p + 4)]
clt_read_feature_table(f, p) == clt_read_number_list(f, p + 2)
clt_read_lookup_table(f, p) == [type |-> UShort(f, p), subs |-> clt_read_number_list(f, p + 4)]

clt_read_coverage(f, p) ==
    LET n == UShort(f, p + 2)
    IN  IF UShort(f, p) = 1 THEN [format |-> 1, list |-> UShorts(f, p + 4, n)]
        ELSE [format |-> 2, list |-> [i \in 1 .. n |-> clt_read_range(f, p + 4 + 6 * (i - 1))]]

\* -1 when the glyph is not covered.
clt_lookup_coverage(cov, gid) ==
    LET n  == Len(cov.list)
        at == {i \in 1 .. n :
                  IF cov.format = 1 THEN cov.list[i] >= gid ELSE cov.list[i].last >= gid}
        i  == Min(at)
        r  == cov.list[i]
    IN  IF at = {} THEN -1
        ELSE IF cov.format = 1 THEN (IF r = gid THEN i - 1 ELSE -1)
        ELSE IF gid < r.first THEN -1 ELSE r.start + gid - r.first

\* The glyphs a coverage table lists with their indices, in order.
Covered(cov, num) ==
    IF cov.format = 1 THEN [i \in DOMAIN cov.list |-> [gid |-> cov.list[i], idx |-> i - 1]]
    ELSE FlattenSeq([i \in DOMAIN cov.list |->
            LET r == cov.list[i]
            IN  [k \in 1 .. Min({r.last + 1, num}) - r.first |->
                    [gid |-> r.first + k - 1, idx |-> r.start + k - 1]]])

-----------------------------------------------------------------------------
(* Reading GSUB.                                                            *)

SINGLE == 1  ALTERNATE == 3  LIGATURE == 4  ESUBST == 7

otl_gsub_read_single(f, p) ==
    LET cov == clt_read_coverage(f, p + UShort(f, p + 2))
    IN  CASE UShort(f, p) = 1 -> <<[type |-> SINGLE, format |-> 1, delta |-> Short(f, p + 4), cov |-> cov]>>
          [] UShort(f, p) = 2 -> <<[type |-> SINGLE, format |-> 2, cov |-> cov,
                                    subst |-> clt_read_number_list(f, p + 4)]>>

otl_gsub_read_alternate(f, p) ==
    LET offs == clt_read_number_list(f, p + 4)
    IN  IF UShort(f, p) # 1 THEN <<>>
        ELSE <<[type |-> ALTERNATE, format |-> 1, cov |-> clt_read_coverage(f, p + UShort(f, p + 2)),
                sets |-> [i \in DOMAIN offs |-> clt_read_number_list(f, p + offs[i])]]>>

otl_gsub_read_ligature(f, p) ==
    LET offs == clt_read_number_list(f, p + 4)
        lig(q) == [glyph |-> UShort(f, q), comps |-> UShorts(f, q + 4, UShort(f, q + 2) - 1)]
        set(q) == LET ligs == clt_read_number_list(f, q) IN [j \in DOMAIN ligs |-> lig(q + ligs[j])]
    IN  IF UShort(f, p) # 1 THEN <<>>
        ELSE <<[type |-> LIGATURE, format |-> 1, cov |-> clt_read_coverage(f, p + UShort(f, p + 2)),
                sets |-> [i \in DOMAIN offs |-> set(p + offs[i])]]>>

ReadSubtable(f, p, type) ==
    CASE type = SINGLE    -> otl_gsub_read_single(f, p)
      [] type = ALTERNATE -> otl_gsub_read_alternate(f, p)
      [] type = LIGATURE  -> otl_gsub_read_ligature(f, p)
      [] OTHER -> <<>>

ReadExtension(f, p) ==
    IF UShort(f, p) # 1 THEN <<>> ELSE ReadSubtable(f, p + ULong(f, p + 4), UShort(f, p + 2))

otl_gsub_read_header(f, p) ==
    [scripts |-> p + UShort(f, p + 4), features |-> p + UShort(f, p + 6), lookups |-> p + UShort(f, p + 8)]

NoFeature == 65535

\* The features of a language: the required one needs the feature option to
\* match "____" for the default language, and is always taken for the others.
DefaultFeatures(f, p, feature) ==
    LET l == clt_read_langsys_table(f, p)
    IN  {l.features[i] : i \in DOMAIN l.features}
        \cup (IF otl_match_optrule(feature, FourUnders) /\ l.req # NoFeature THEN {l.req} ELSE {})
LangFeatures(f, p, feature) ==
    LET l == clt_read_langsys_table(f, p)
    IN  {l.features[i] : i \in DOMAIN l.features}
        \cup (IF otl_match_optrule(feature, FourUnders) \/ l.req # NoFeature THEN {l.req} ELSE {})

ScriptFeatures(f, p, language, feature) ==
    LET t == clt_read_script_table(f, p)
    IN  (IF otl_match_optrule(language, Dflt) /\ t.dflt # 0
         THEN DefaultFeatures(f, p + t.dflt, feature) ELSE {})
        \cup UNION {LangFeatures(f, p + t.langs[i].offset, feature) :
                       i \in {k \in DOMAIN t.langs : otl_match_optrule(language, t.langs[k].tag)}}

\* The subtables of the features that are selected, in the order of the
\* feature list; None when there is no lookup among them.
otl_gsub_read_feat(s, opt) ==
    LET f    == s.file
        at   == sfnt_find_table_pos(s, TagGsub)
        head == otl_gsub_read_header(f, at)
        script   == otl_parse_optstring(opt.script)
        language == otl_parse_optstring(opt.language)
        feature  == otl_parse_optstring(opt.feature)
        scripts  == clt_read_record_list(f, head.scripts)
        bits == UNION {ScriptFeatures(f, head.scripts + scripts[i].offset, language, feature) :
                          i \in {k \in DOMAIN scripts : otl_match_optrule(script, scripts[k].tag)}}
        feats   == clt_read_record_list(f, head.features)
        lookups == clt_read_number_list(f, head.lookups)
        on   == SelectSeq([i \in DOMAIN feats |-> i],
                          LAMBDA i : i - 1 \in bits /\ otl_match_optrule(feature, feats[i].tag))
        nums == FlattenSeq([k \in DOMAIN on |->
                    clt_read_feature_table(f, head.features + feats[on[k]].offset)])
        table(n) == clt_read_lookup_table(f, head.lookups + lookups[n + 1])
        known == SelectSeq(nums, LAMBDA n : table(n).type \in {SINGLE, ALTERNATE, LIGATURE, ESUBST})
        subs(n) == LET t == table(n)
                   IN  FlattenSeq([k \in DOMAIN t.subs |->
                        LET p == head.lookups + lookups[n + 1] + t.subs[k]
                        IN  IF t.type = ESUBST THEN ReadExtension(f, p) ELSE ReadSubtable(f, p, t.type)])
    IN  IF at = 0 \/ known = <<>> THEN None
        ELSE <<FlattenSeq([k \in DOMAIN known |-> subs(known[k])])>>

-----------------------------------------------------------------------------
(* Applying one subtable: a glyph, or -1.                                   *)

otl_gsub_apply_single(t, gid) ==
    LET idx == clt_lookup_coverage(t.cov, gid)
    IN  IF idx < 0 THEN -1
        ELSE IF t.format = 1 THEN (gid + t.delta) % Word
        ELSE IF idx < Len(t.subst) THEN t.subst[idx + 1] ELSE -1

otl_gsub_apply_alternate(t, alt, gid) ==
    LET idx == clt_lookup_coverage(t.cov, gid)
    IN  IF idx < 0 \/ idx >= Len(t.sets) THEN -1
        ELSE IF alt >= Len(t.sets[idx + 1]) THEN -1 ELSE t.sets[idx + 1][alt + 1]

otl_gsub_apply_ligature(t, gids) ==
    LET idx  == IF gids = <<>> THEN -1 ELSE clt_lookup_coverage(t.cov, gids[1])
        ligs == t.sets[idx + 1]
        hits == {j \in DOMAIN ligs : ligs[j].comps = Tail(gids)}
    IN  IF idx < 0 \/ idx >= Len(t.sets) THEN -1
        ELSE IF hits = {} THEN -1 ELSE ligs[Min(hits)].glyph

-----------------------------------------------------------------------------
(* A list of substitutions; select and chain count them from 0.             *)

GSUB_LIST_MAX == 32

otl_gsub_new == [gsubs |-> <<>>, select |-> -1, chain |-> <<>>]

gsub_find(list, opt) ==
    LET at == {i \in DOMAIN list.gsubs : list.gsubs[i].opt = opt} IN IF at = {} THEN -1 ELSE Min(at) - 1

otl_gsub_select(list, opt) == [list EXCEPT !.select = gsub_find(list, opt)]

otl_gsub_add_feat(list, opt, s) ==
    LET n    == Len(list.gsubs)
        read == otl_gsub_read_feat(s, opt)
    IN  IF gsub_find(list, opt) >= 0 THEN otl_gsub_select(list, opt)
        ELSE IF n > GSUB_LIST_MAX \/ read = None THEN list
        ELSE [list EXCEPT !.gsubs = Append(@, [opt |-> opt, subtables |-> read[1]]), !.select = n]

\* The first subtable of the type that gives a glyph.
FirstGlyph(tables, type, Apply(_)) ==
    LET on == {j \in DOMAIN tables : tables[j].type = type /\ Apply(tables[j]) >= 0}
    IN  IF on = {} THEN -1 ELSE Apply(tables[Min(on)])

Selected(list) == list.gsubs[list.select + 1].subtables

otl_gsub_apply(list, gid) ==
    LET apply(t) == otl_gsub_apply_single(t, gid) IN FirstGlyph(Selected(list), SINGLE, apply)
otl_gsub_apply_alt(list, alt, gid) ==
    LET apply(t) == otl_gsub_apply_alternate(t, alt, gid) IN FirstGlyph(Selected(list), ALTERNATE, apply)
otl_gsub_apply_lig(list, gids) ==
    LET apply(t) == otl_gsub_apply_ligature(t, gids) IN FirstGlyph(Selected(list), LIGATURE, apply)

\* A tag list is a sequence of tags, a tag a sequence of one to three parts.
Padding(part) == part \o [i \in 1 .. 4 - Len(part) |-> Space]
scan_otl_tag(tag) ==
    LET n == Len(tag)
    IN  IF Len(tag[n]) < 4 \/ \E i \in 1 .. n - 1 : Len(tag[i]) > 4 THEN None
        ELSE <<[script |-> IF n = 1 THEN ANY ELSE Padding(tag[1]),
                language |-> IF n = 1 THEN ANY ELSE IF n = 2 THEN Padding(<<>>) ELSE Padding(tag[2]),
                feature |-> tag[n]]>>

Scanned(tags) == FlattenSeq([i \in DOMAIN tags |-> scan_otl_tag(tags[i])])

otl_gsub_add_feat_list(list, tags, s) ==
    FoldLeft(LAMBDA acc, opt : IF gsub_find(acc, opt) < 0 THEN otl_gsub_add_feat(acc, opt, s) ELSE acc,
             [list EXCEPT !.chain = <<>>], Scanned(tags))

otl_gsub_set_chain(list, tags) ==
    LET opts == Scanned(tags)
    IN  [list EXCEPT !.chain = SelectSeq([i \in DOMAIN opts |-> gsub_find(list, opts[i])], LAMBDA i : i >= 0)]

otl_gsub_apply_chain(list, gid) ==
    FoldLeft(LAMBDA g, i :
                LET apply(t) == otl_gsub_apply_single(t, g)
                    out == FirstGlyph(list.gsubs[i + 1].subtables, SINGLE, apply)
                IN  IF out < 0 THEN g ELSE out,
             gid, list.chain)

-----------------------------------------------------------------------------
(* ToUnicode for glyphs that only a substitution reaches.  The state is the *)
(* CMap, the used CIDs that have no text yet; e holds what the font gives:  *)
(* base and sub, the character of a glyph (-1 for none), cids, the CID of a *)
(* glyph, and num, the number of glyphs.                                    *)

CharOfGlyph(e, gid) == IF UC_is_valid(e.base[gid]) THEN e.base[gid] ELSE e.sub[gid]

AddText(st, cid, text) == [cmap |-> (cid :> text) @@ st.cmap, used |-> st.used \ {cid}]

add_glyph_if_valid(st, e, gid, out) ==
    IF /\ gid < e.num /\ out < e.num
       /\ e.cids[out] \in st.used
       /\ UC_is_valid(CharOfGlyph(e, gid))
    THEN AddText(st, e.cids[out], <<CharOfGlyph(e, gid)>>) ELSE st

add_ToUnicode_single(st, e, t) ==
    FoldLeft(LAMBDA acc, c :
                IF t.format = 1 THEN add_glyph_if_valid(acc, e, c.gid, (c.gid + t.delta) % Word)
                ELSE IF c.idx < Len(t.subst) THEN add_glyph_if_valid(acc, e, c.gid, t.subst[c.idx + 1])
                ELSE acc,
             st, Covered(t.cov, e.num))

add_alternate1_inverse_map(st, e, gid, idx, t) ==
    IF idx >= Len(t.sets) THEN st
    ELSE FoldLeft(LAMBDA acc, alt : add_glyph_if_valid(acc, e, gid, alt), st, t.sets[idx + 1])

add_ToUnicode_alternate(st, e, t) ==
    FoldLeft(LAMBDA acc, c : IF c.gid < e.num THEN add_alternate1_inverse_map(acc, e, c.gid, c.idx, t) ELSE acc,
             st, Covered(t.cov, e.num))

\* A ligature is added only when all that it is made of has a character.
add_ligature1_inverse_map(st, e, gid, idx, t) ==
    LET one(acc, lig) ==
            LET gids == <<gid>> \o lig.comps
                ok   == \A i \in DOMAIN gids : gids[i] < e.num /\ UC_is_valid(CharOfGlyph(e, gids[i]))
            IN  IF lig.glyph >= e.num \/ ~ok THEN acc
                ELSE IF e.cids[lig.glyph] \notin acc.used THEN acc
                ELSE AddText(acc, e.cids[lig.glyph], [i \in DOMAIN gids |-> CharOfGlyph(e, gids[i])])
    IN  IF idx >= Len(t.sets) THEN st ELSE FoldLeft(one, st, t.sets[idx + 1])

add_ToUnicode_ligature(st, e, t) ==
    FoldLeft(LAMBDA acc, c : IF c.gid < e.num THEN add_ligature1_inverse_map(acc, e, c.gid, c.idx, t) ELSE acc,
             st, Covered(t.cov, e.num))

otl_gsub_add_ToUnicode(st, e, s) ==
    LET list == otl_gsub_add_feat(otl_gsub_new, [script |-> ANY, language |-> ANY, feature |-> ANY], s)
        add(acc, t) == CASE t.type = SINGLE    -> add_ToUnicode_single(acc, e, t)
                         [] t.type = ALTERNATE -> add_ToUnicode_alternate(acc, e, t)
                         [] t.type = LIGATURE  -> add_ToUnicode_ligature(acc, e, t)
    IN  IF list.gsubs = <<>> THEN st ELSE FoldLeft(add, st, list.gsubs[1].subtables)

=============================================================================
