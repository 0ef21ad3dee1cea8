---------------------------- MODULE Declarators ----------------------------
(***************************************************************************)
(* What a declarator makes of a base type, in the five places of the       *)
(* compiler that work it out.  Parser::parseDeclarator turns the syntax    *)
(* into a chain of layers; every other phase walks that chain in a way of  *)
(* its own.                                                                *)
(*                                                                         *)
(* Left out: qualifiers, parameter lists, [*] and static bounds, and the   *)
(* `variably modified' flag, which the callers here ignore.                *)
(***************************************************************************)
EXTENDS Integers, SequencesExt

(***************************************************************************)
(* Syntax: stars, a name or a declarator in parentheses, suffixes.  A      *)
(* bound is <<>> when the brackets are empty, else <<expression>>.         *)
(***************************************************************************)
Arr(bound) == [k |-> "arr", n |-> bound]
Fun == [k |-> "fun"]
Plain(name, stars, suffixes) ==
  [name |-> name, stars |-> stars, inner |-> <<>>, suffixes |-> suffixes]
Parens(inner, stars, suffixes) ==
  [name |-> inner.name, stars |-> stars, inner |-> <<inner>>, suffixes |-> suffixes]

(***************************************************************************)
(* Types                                                                   *)
(***************************************************************************)
Pointer(to) == [t |-> "ptr", of |-> to]
Array(of, n) == [t |-> "arr", of |-> of, n |-> n]
FunctionType(returns) == [t |-> "fun", of |-> returns]
Layer(type, layer) ==
  CASE layer.k = "ptr" -> Pointer(type)
    [] layer.k = "arr" -> Array(type, layer.n)
    [] layer.k = "fun" -> FunctionType(type)
    [] layer.k = "id" -> type

\* Layers put on from the left and from the right.
LayersOn(type, layers) == FoldLeft(Layer, type, layers)
LayersUnder(type, layers) == FoldLeft(Layer, type, Reverse(layers))

(***************************************************************************)
(* Parser::parseDeclarator: the chain from the outermost node inwards.     *)
(* Behind a name each suffix goes outside; behind parentheses suffixes,    *)
(* then stars, are hung below the inner chain.                             *)
(***************************************************************************)
Stars(n) == [i \in 1..n |-> [k |-> "ptr"]]

RECURSIVE Chain(_)
Chain(d) ==
  IF d.inner = <<>>
  THEN Reverse(d.suffixes) \o <<[k |-> "id"]>> \o Stars(d.stars)
  ELSE Chain(d.inner[1]) \o d.suffixes \o Stars(d.stars)

(***************************************************************************)
(* Semantic::buildTypeFromDeclaration and canonicalTypeRepr: runs of array *)
(* layers are turned round, then the layers go on from the innermost.      *)
(***************************************************************************)
RECURSIVE ArraysReversed(_)
ArraysReversed(chain) ==
  LET run == CHOOSE n \in 0..Len(chain) :
               /\ \A i \in 1..n : chain[i].k = "arr"
               /\ n < Len(chain) => chain[n + 1].k # "arr"
  IN IF chain = <<>> THEN <<>>
     ELSE IF run = 0 THEN <<Head(chain)>> \o ArraysReversed(Tail(chain))
     ELSE Reverse(SubSeq(chain, 1, run)) \o ArraysReversed(SubSeq(chain, run + 1, Len(chain)))

SemanticType(base, d) == LayersUnder(base, ArraysReversed(Chain(d)))

(***************************************************************************)
(* TypeMap::applyDeclaratorLayers and the walk of LayoutEngine: what is    *)
(* below the name from the bottom up, then what is above from the top      *)
(* down; functions are passed over.                                        *)
(***************************************************************************)
NameAt(chain) == CHOOSE i \in DOMAIN chain : chain[i].k = "id"
Data(layers) == SelectSeq(layers, LAMBDA l : l.k \in {"ptr", "arr"})
BelowName(chain) == Data(SubSeq(chain, NameAt(chain) + 1, Len(chain)))
AboveName(chain) == Data(SubSeq(chain, 1, NameAt(chain) - 1))

CodegenType(base, d) == LayersOn(LayersUnder(base, BelowName(Chain(d))), AboveName(Chain(d)))

\* ConstExprEval (suByteSize, structMemberOffset): the layers go on as the
\* chain is walked, the outermost first.
ConstantType(base, d) == LayersOn(base, Chain(d))

\* Parser::buildTypeNameNode: stars, then the dimensions of a type name.
TypeName(base, stars, dims) == LayersUnder(LayersOn(base, Stars(stars)), dims)
=============================================================================
