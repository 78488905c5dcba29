------------------------------ MODULE CffDict ------------------------------
(***************************************************************************)
(* The DICTs of a CFF font (cff_dict.c): a sequence of entries with their  *)
(* numbers, read from bytes and written as bytes.  A number is an integer, *)
(* or a real, which is kept as the nibbles of its decimal form.            *)
(***************************************************************************)
EXTENDS Integers, Sequences, FiniteSets, SequencesExt

Num(n)      == [int |-> n, text |-> <<>>]
Real(ds)    == [int |-> 0, text |-> ds]
Entry(key, vals) == [key |-> key, vals |-> vals]

\* The operators the fonts use, by their place in the table.
dict_operator ==
    [id \in {1, 5, 6, 10, 13, 15, 16, 17, 18, 19, 20, 21, 28, 29, 52, 56, 58, 59, 60} |->
        CASE id = 1  -> <<"Notice", "sid">>        [] id = 5  -> <<"FontBBox", "array">>
          [] id = 6  -> <<"BlueValues", "delta">>  [] id = 10 -> <<"StdHW", "number">>
          [] id = 13 -> <<"UniqueID", "number">>   [] id = 15 -> <<"charset", "offset">>
          [] id = 16 -> <<"Encoding", "offset">>   [] id = 17 -> <<"CharStrings", "offset">>
          [] id = 18 -> <<"Private", "szoff">>     [] id = 19 -> <<"Subrs", "offset">>
          [] id = 20 -> <<"defaultWidthX", "number">>
          [] id = 21 -> <<"nominalWidthX", "number">>
          [] id = 28 -> <<"CharstringType", "number">>
          [] id = 29 -> <<"FontMatrix", "array">>  [] id = 52 -> <<"ROS", "ros">>
          [] id = 56 -> <<"CIDCount", "number">>
          [] id = 58 -> <<"FDArray", "offset">>    [] id = 59 -> <<"FDSelect", "offset">>
          [] OTHER   -> <<"FontName", "sid">>]

LastOp1 == 22
LastOp  == 61
IdOf(key)   == CHOOSE id \in DOMAIN dict_operator : dict_operator[id][1] = key
TypeOf(key) == dict_operator[IdOf(key)][2]

-----------------------------------------------------------------------------
(* Numbers.                                                                 *)

Pair(n) == <<(n \div 256) % 256, n % 256>>
Long(n) == <<29>> \o Pair(n \div 65536) \o Pair(n)

pack_integer(n) ==
    CASE n \in -107 .. 107     -> <<n + 139>>
      [] n \in 108 .. 1131     -> <<247 + (n - 108) \div 256, (n - 108) % 256>>
      [] n \in -1131 .. -108   -> <<251 + (-n - 108) \div 256, (-n - 108) % 256>>
      [] n \in -32768 .. -1132 \cup 1132 .. 32767 -> <<28>> \o Pair(n)
      [] OTHER -> Long(n)

get_integer(b) ==
    LET signed(v, w) == IF v >= w \div 2 THEN v - w ELSE v
    IN  CASE b[1] = 28 -> <<3, signed(b[2] * 256 + b[3], 65536)>>
          [] b[1] = 29 -> <<5, signed(b[2], 256) * 16777216 + b[3] * 65536 + b[4] * 256 + b[5]>>
          [] b[1] \in 32 .. 246  -> <<1, b[1] - 139>>
          [] b[1] \in 247 .. 250 -> <<2, (b[1] - 247) * 256 + b[2] + 108>>
          [] b[1] \in 251 .. 254 -> <<2, -(b[1] - 251) * 256 - b[2] - 108>>
          [] OTHER -> <<0, 0>>

\* Two nibbles a byte; one or two nibbles 15 end the number.
pack_real(ds) ==
    LET n == ds \o (IF Len(ds) % 2 = 1 THEN <<15>> ELSE <<15, 15>>)
    IN  <<30>> \o [i \in 1 .. Len(n) \div 2 |-> 16 * n[2 * i - 1] + n[2 * i]]

\* When the first nibble of a byte ends the number the byte is not consumed;
\* it is 255, which cff_dict_unpack skips.
get_real(b) ==
    LET nib  == FlattenSeq([i \in 1 .. Len(b) - 1 |-> <<b[i + 1] \div 16, b[i + 1] % 16>>])
        ends == {i \in DOMAIN nib : nib[i] = 15}
        at   == CHOOSE i \in ends : \A j \in ends : i <= j
    IN  IF ends = {} THEN <<0, <<>> >>
        ELSE IF at % 2 = 1 /\ b[2 + at \div 2] # 255 THEN <<0, <<>> >>
        ELSE <<1 + at \div 2, SelectSeq(SubSeq(nib, 1, at - 1), LAMBDA d : d # 13)>>

cff_dict_put_number(v, type) ==
    CASE type = "offset" -> Long(v.int)
      [] v.text # <<>>   -> pack_real(v.text)
      [] OTHER           -> pack_integer(v.int)

-----------------------------------------------------------------------------
(* Reading and writing a DICT.                                              *)

\* add_dict: b starts at the operator; acc = [dict, stack, ok].  An operator
\* without a name takes no operands and leaves its second byte in place.
AddDict(acc, b) ==
    LET id == IF b[1] = 12 THEN b[2] + LastOp1 ELSE b[1]
        n  == IF b[1] = 12 THEN 2 ELSE 1
        s  == acc.stack
        one == dict_operator[id][2] \in {"number", "sid", "offset"}
        key == dict_operator[id][1]
    IN  IF b[1] = 12 /\ (Len(b) = 1 \/ id >= LastOp) THEN <<0, acc>>
        ELSE IF id \notin DOMAIN dict_operator THEN <<n - 1, acc>>
        ELSE IF one
        THEN IF s = <<>> THEN <<0, acc>>
             ELSE <<n, [acc EXCEPT !.dict = Append(@, Entry(key, <<Last(s)>>)), !.stack = Front(s)]>>
        ELSE <<n, [acc EXCEPT !.dict = IF s = <<>> THEN @ ELSE Append(@, Entry(key, s)),
                              !.stack = <<>>]>>

RECURSIVE Unpack(_, _)
Unpack(acc, b) ==
    LET v == IF b[1] = 30 THEN get_real(b) ELSE get_integer(b)
        r == CASE b[1] < LastOp1 -> AddDict(acc, b)
               [] b[1] = 255 \/ b[1] \in 22 .. 27 -> <<1, acc>>
               [] OTHER -> <<v[1], [acc EXCEPT !.stack = Append(@,
                                        IF b[1] = 30 THEN Real(v[2]) ELSE Num(v[2]))]>>
    IN  IF b = <<>> THEN acc
        ELSE IF r[1] = 0 THEN [acc EXCEPT !.ok = FALSE]
        ELSE Unpack(r[2], SubSeq(b, r[1] + 1, Len(b)))

cff_dict_unpack(b) == Unpack([dict |-> <<>>, stack |-> <<>>, ok |-> TRUE], b).dict

put_dict_entry(e) ==
    LET id   == IdOf(e.key)
        type == IF TypeOf(e.key) \in {"offset", "szoff"} THEN "offset" ELSE "number"
    IN  IF e.vals = <<>> THEN <<>>
        ELSE FlattenSeq([i \in DOMAIN e.vals |-> cff_dict_put_number(e.vals[i], type)])
             \o (IF id < LastOp1 THEN <<id>> ELSE <<12, id - LastOp1>>)

\* ROS has to come first.
cff_dict_pack(d) ==
    LET ros  == SelectSeq(d, LAMBDA e : e.key = "ROS")
        rest == SelectSeq(d, LAMBDA e : e.key # "ROS")
    IN  FlattenSeq([i \in DOMAIN ros |-> put_dict_entry(ros[i])])
        \o FlattenSeq([i \in DOMAIN rest |-> put_dict_entry(rest[i])])

-----------------------------------------------------------------------------
(* Operations on a DICT.  A removed entry stays with no operands.           *)

At(d, key) == {i \in DOMAIN d : d[i].key = key}
FirstAt(d, key) == CHOOSE i \in At(d, key) : \A j \in At(d, key) : i <= j

cff_dict_known(d, key) == \E i \in At(d, key) : d[i].vals # <<>>
cff_dict_get(d, key, k) == d[FirstAt(d, key)].vals[k + 1].int
cff_dict_add(d, key, n) ==
    IF At(d, key) # {} THEN d ELSE Append(d, Entry(key, [i \in 1 .. n |-> Num(0)]))
cff_dict_remove(d, key) ==
    FoldLeft(LAMBDA e, i : [e EXCEPT ![i].vals = <<>>], d, SetToSeq(At(d, key)))
cff_dict_set(d, key, k, n) == [d EXCEPT ![FirstAt(d, key)].vals[k + 1] = Num(n)]

=============================================================================
