------------------------------ MODULE MCManifest -----------------------------
(***************************************************************************)
(* Model checking of Manifest.  The first channel has up to three rows, in *)
(* any order, among them keys with a common directory, a key below another *)
(* and rows that are skipped or refused; the second one has a directory of *)
(* the same name.                                                          *)
(***************************************************************************)
EXTENDS Manifest

Object(key) == [type |-> "object", key |-> key, etag |-> 1, intact |-> TRUE]
Other(type, key, intact) == [type |-> type, key |-> key, etag |-> 1, intact |-> intact]

Rows == {Object(<<1>>), Object(<<2>>), Object(<<3>>), Object(<<1, 2>>), Object(<<1, 1, 2>>)}
BadRows == {Other("marker", <<2>>, TRUE), Other("invalid", <<3>>, TRUE), Other("object", <<1, 3>>, FALSE)}

SomeRows == UNION {[1 .. n -> Rows] : n \in 0 .. 3} \cup UNION {[1 .. n -> Rows \cup BadRows] : n \in 1 .. 2}

Input(d1, d2, rows, whole) ==
    <<[dir |-> d1, path |-> 1, rows |-> rows, whole |-> whole],
      [dir |-> d2, path |-> 2, rows |-> <<Object(<<1, 3>>)>>, whole |-> TRUE]>>

AllInputs ==
    {Input(1, 2, rows, TRUE) : rows \in SomeRows}
    \cup {Input(d1, d2, <<Object(<<1, 2>>)>>, whole) :
            d1 \in {1, Slash}, d2 \in {1, 2, BadName}, whole \in BOOLEAN}
=============================================================================
