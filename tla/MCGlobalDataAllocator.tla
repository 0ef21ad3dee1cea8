----------------------- MODULE MCGlobalDataAllocator -----------------------
(***************************************************************************)
(* Translation units of up to four declarations for TLC: two file-scope    *)
(* objects (one declared tentatively and again with an initializer), a     *)
(* static local and a string literal that is used twice, of all sizes and  *)
(* alignments that pad.                                                    *)
(***************************************************************************)
EXTENDS GlobalDataAllocator

MCObject == {"a", "b", "s", "lit"}
D(kind, name, size, align, data) ==
  [kind |-> kind, name |-> name, size |-> size, align |-> align, data |-> data]

(* An object has one type: the declarations of a name agree on it. *)
Type(name) == CASE name = "a" -> {<<1, 1>>, <<12, 4>>}
                [] name = "b" -> {<<8, 8>>, <<0, 0>>, <<2, 2>>}
                [] name = "s" -> {<<4, 4>>, <<24, 8>>}
                [] name = "lit" -> {<<3, 1>>}
Kind(name) == CASE name \in {"a", "b"} -> "def" [] name = "s" -> "static"
                [] name = "lit" -> "string"
Typings == [MCObject -> UNION {Type(n) : n \in MCObject}]
MCTypings == {f \in Typings : \A n \in MCObject : f[n] \in Type(n)}

Names == {<<"a", "b", "s", "lit">>, <<"b", "a", "b", "lit", "s", "lit">>, <<"s", "lit">>,
          <<"a", "a", "b", "a">>, <<"lit", "s">>, << >>, <<"b", "lit", "a", "s">>}
MCSources ==
  {[k \in DOMAIN ns |-> D(Kind(ns[k]), ns[k], f[ns[k]][1], f[ns[k]][2], k \in init)] :
     ns \in Names, f \in MCTypings, init \in {{}, {1}, {2, 3}, {3, 4}}}
=============================================================================
