--------------------------- MODULE MCArchivePull ---------------------------
(***************************************************************************)
(* Instances of ArchivePull for TLC.  Five names: main, exit, an ordinary  *)
(* pair f and g, and sp standing for the env.__* state.  The command lines *)
(* combine every user unit of UserUnits with every way of filling one or   *)
(* two archives from a pool of members that define and need exit, f and g. *)
(***************************************************************************)
EXTENDS ArchivePull

CONSTANTS main, exit, f, g, sp, env, sysproc, host

MCName   == {main, exit, f, g, sp}
MCModule == {env, sysproc, host}
MCBuiltin == {sysproc}
MCRuntimeState == {sp}

Extern(names) == [mod : {env}, name : names]
Good(exps, imps) == [exp |-> exps, imp |-> imps, status |-> "good"]
Tu(unit) == [kind |-> "tu", unit |-> unit]
Ar(members) == [kind |-> "ar", open |-> TRUE, members |-> members]

(* Members of a library: one definition each, needing nothing, one other   *)
(* symbol, a host symbol or the runtime state.                             *)
PlainMembers ==
  {Good({n}, Extern(S)) : n \in {exit, f, g}, S \in {{}, {exit}, {f}, {g}}}
OddMembers ==
  {Good({f, g}, {}),
   Good({f}, [mod : {sysproc}, name : {exit}] \cup Extern({sp})),
   [exp |-> {g}, imp |-> {}, status |-> "undecodable"],
   [exp |-> {g}, imp |-> {}, status |-> "unlinkable"]}
Pool == {u \in PlainMembers : \A imp \in u.imp : imp.name \notin u.exp}
          \cup OddMembers

UserUnits ==
  {Good({main}, Extern(S)) : S \in {{}, {f}, {f, g}, {exit, f}}}
    \cup {Good({main, g}, Extern({f})), Good({f}, Extern({g})),
          Good({main}, [mod : {host}, name : {f}] \cup [mod : {sysproc}, name : {f, g}] \cup Extern({sp}))}

OneArchive  == {<<Tu(u), Ar(<<m1, m2>>)>> : u \in UserUnits, m1, m2 \in Pool}
TwoArchives == {<<Ar(<<m1>>), Tu(u), Ar(<<m2, m3>>)>> :
                  u \in UserUnits, m1, m2, m3 \in Pool}
EdgeInputs  ==
  {<< >>, <<Tu(Good({f}, {}))>>, <<Tu(Good({f}, {})), Tu(Good({f}, {}))>>,
   <<Tu(Good({main}, {})), [kind |-> "ar", open |-> FALSE, members |-> << >>]>>,
   <<Tu(Good({main}, Extern({g}))), Tu(Good({g}, Extern({f}))),
     Ar(<<Good({f}, {}), Good({exit}, {})>>)>>}

MCCommands ==
  [inputs : OneArchive \cup TwoArchives \cup EdgeInputs, noStdlib : {FALSE}]
    \cup [inputs : OneArchive, noStdlib : {TRUE}]

(* A smaller family for the runs that look for one behaviour. *)
SmallCommands ==
  [inputs : {<<Tu(u), Ar(<<m1>>), Ar(<<m2, m3>>)>> :
               u \in {Good({main}, Extern({f}))}, m1, m2, m3 \in PlainMembers},
   noStdlib : {FALSE}]
=============================================================================
