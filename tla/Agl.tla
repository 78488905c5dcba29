-------------------------------- MODULE Agl --------------------------------
(***************************************************************************)
(* Glyph names and the glyph list (agl.c).                                 *)
(*                                                                         *)
(* A part of a glyph name is a record: uni, the characters that a name of  *)
(* the form uniXXXX... or uXXXXXX spells (<<>> for any other name), stem,  *)
(* and var, the variant a name carries without a dot ("Asmall" is the stem *)
(* "a" with the suffix "sc"), a suffix or none.  A glyph name is a record  *)
(* of its parts (joined by "_") and its suffix (after "."), a sequence of  *)
(* characters.                                                             *)
(***************************************************************************)
EXTENDS Integers, Sequences, FiniteSets, SequencesExt, FiniteSetsExt

None  == <<>>
NoVar == <<>>

Plain(n)         == [uni |-> None, stem |-> n, var |-> NoVar]
Variant(n, suffix) == [uni |-> None, stem |-> n, var |-> suffix]
UniName(chars)   == [uni |-> chars, stem |-> 0, var |-> NoVar]
Name(part)       == [parts |-> <<part>>, suffix |-> None]
Suffixed(n, suffix) == [n EXCEPT !.suffix = suffix]

\* The feature tag of the suffixes that have one, those that TeX fonts use.
SC   == <<115, 99>>
SMCP == <<115, 109, 99, 112>>
NUMR == <<110, 117, 109, 114>>
agl_suffix_to_otltag(suffix) ==
    CASE suffix \in {SC, SMCP} -> <<SMCP>>
      [] suffix = NUMR -> <<NUMR>>
      [] OTHER -> None

UC_is_valid(c) == c \in 0 .. 1114111 /\ c \notin 55296 .. 57343
IsPUA(c) == c \in 57344 .. 63743 \/ c \in 983040 .. 1048573 \/ c \in 1048576 .. 1114109

\* NULL for a name of no parts (.notdef).
agl_chop_suffix(name) ==
    [name |-> IF name.parts = <<>> THEN None ELSE <<[name EXCEPT !.suffix = None]>>,
     suffix |-> name.suffix]

agl_normalized_name(part) == [name |-> [part EXCEPT !.var = NoVar], suffix |-> part.var]

\* The list that the entries <<name, characters>> of the files make; a name
\* that comes again is an alternative.
agl_load_listfile(list, entries) ==
    FoldLeft(LAMBDA acc, e :
                LET n == agl_normalized_name(e[1])
                IN  IF e[2] = <<>> THEN acc
                    ELSE Append(acc, [key |-> e[1], name |-> n.name, suffix |-> n.suffix,
                                      unicodes |-> e[2]]),
             list, entries)

\* The alternatives of a name, in their order.
agl_lookup_list(list, part) == SelectSeq(list, LAMBDA a : a.key = part)

agl_name_is_unicode(part) == part.uni # None

agl_name_convert_unicode(part) ==
    IF Len(part.uni) # 1 \/ ~UC_is_valid(part.uni[1]) THEN -1 ELSE part.uni[1]

\* The characters of one part; None when there are none.
PartUnicodes(list, part) ==
    LET found == agl_lookup_list(list, part)
        fixed == IF found = <<>> \/ (Len(found[1].unicodes) = 1 /\ IsPUA(found[1].unicodes[1]))
                 THEN agl_lookup_list(list, agl_normalized_name(part).name) ELSE found
    IN  IF agl_name_is_unicode(part) THEN part.uni
        ELSE IF fixed = <<>> THEN None ELSE fixed[1].unicodes

\* All parts must have characters.
agl_get_unicodes(list, name) ==
    LET texts == [i \in DOMAIN name.parts |-> PartUnicodes(list, name.parts[i])]
    IN  IF \E i \in DOMAIN texts : texts[i] = None THEN None ELSE FlattenSeq(texts)

\* The characters there are, and how many parts have none.
agl_sput_UTF16BE(list, name) ==
    LET texts == [i \in DOMAIN name.parts |-> PartUnicodes(list, name.parts[i])]
    IN  [text |-> FlattenSeq(texts), fails |-> Cardinality({i \in DOMAIN texts : texts[i] = None})]

=============================================================================
