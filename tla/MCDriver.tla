----------------------------- MODULE MCDriver -----------------------------
(***************************************************************************)
(* All command lines of up to two words, and of three words where the      *)
(* middle of the vocabulary interacts, with some longer ones; three worlds *)
(* that differ in the sysroot and in where the archives are.               *)
(***************************************************************************)
EXTENDS Driver

Opt(o) == [opt |-> o, base |-> "", ext |-> ""]
With(o, b) == [opt |-> o, base |-> b, ext |-> ""]

Source == Word("a", ".c")
Second == Word("b", ".c")
Same == Word("a", ".i")
Bare == Word("b", "")
Object == Word("a", ".o")
Wasm == Word("a", ".wasm")

Files == {Source, Object, Wasm, Bare}
Switches == {Opt(o) : o \in Options \union WithValue}
Others == {Second, Same, Opt("-h"), Opt("-l"), Opt("-Wall"), With("-I", "i"), With("-L", "d"), With("-l", "m"),
           With("-l", "c"), With("--map=", "m"), With("--map=", ""), With("--sysroot=", "r"), With("--sysroot=", ""),
           With("--import-module=", "p"), With("--import-module=", ""), Opt("--version")}
Vocabulary == Files \union Switches \union Others
Core == {Source, Object, Opt("-c"), Opt("-o"), Opt("-E"), Opt("-L"), With("-l", "m"), With("--map=", "m"), Opt("-nostdlib")}

Curated == {
  <<Source, Second, Object>>,
  <<Source, Second, Opt("-c"), Same>>,
  <<Opt("-ffreestanding"), Source, Second>>,
  <<Opt("-c"), Opt("-ffreestanding"), Source>>,
  <<Source, With("-L", "d"), With("-L", "e"), With("-l", "m"), With("-l", "c")>>,
  <<Source, With("-L", "e"), With("-L", "d"), With("-l", "m"), Opt("-nostdlib")>>,
  <<Source, Opt("-o"), Object, Opt("-o"), Second>>,
  <<Opt("-I"), Opt("-c"), Source, With("-I", "i"), Opt("-isystem"), Bare>>,
  <<Opt("--import-module"), Bare, Source, With("--import-module=", "p"), Opt("-v")>>,
  <<Source, With("--map=", "m"), Opt("-o"), Bare, With("--sysroot=", "r")>>,
  <<Source, Wasm, With("--sysroot=", "r"), Opt("--sysroot"), Empty>>,
  <<Opt("--ast"), Opt("-E"), Source, Opt("-isystem"), Bare>> }

MCLines ==
  {<<>>} \union {<<v>> : v \in Vocabulary} \union {<<v, w>> : v, w \in Vocabulary}
    \union {<<u, v, w>> : u, v, w \in Core} \union Curated

R == Word("r", "")
Env == Word("env", "")
Install == Word("share", "")
D == Word("d", "")
E == Word("e", "")
M == Word("m", "")
MCWorlds == {
  [env |-> Empty, install |-> Install, archives |-> {<<LibOf(Install), C>>, <<D, M>>, <<LibOf(Install), M>>}],
  [env |-> Env, install |-> Install, archives |-> {<<D, M>>, <<E, M>>, <<LibOf(R), C>>, <<E, C>>}],
  [env |-> Empty, install |-> Empty, archives |-> {<<D, C>>}] }
=============================================================================
