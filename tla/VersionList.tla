---------------------------- MODULE VersionList ----------------------------
(***************************************************************************)
(* The list of versions a version_set keeps (version_set.cc): a circular   *)
(* doubly linked list through dummy_versions_, whose members are counted   *)
(* references and delete themselves, and version_set::builder, which holds *)
(* a reference to the version it starts from.  Operators on the list as a  *)
(* record; DbOpen has one for every process.                               *)
(*                                                                         *)
(* A version_set gets at most three versions inside Open: the first one,   *)
(* the one recover builds and the one log_any_apply builds.  save_to is    *)
(* empty, so that no version has files.                                    *)
(*                                                                         *)
(* In the operators, linked is the set of the versions whose constructor   *)
(* links them to themselves.  It is empty in the code, whose constructor   *)
(* leaves next_ and prev_ null.                                            *)
(***************************************************************************)
EXTENDS Integers

Dummy == 0           \* dummy_versions_
FirstVersion == 1
RecoveredVersion == 2
AppliedVersion == 3
Versions == Dummy..AppliedVersion
NullVersion == -1

NoVersions ==
    [alive |-> {}, current |-> NullVersion, refs |-> [v \in Versions |-> 0],
     next |-> [v \in Versions |-> NullVersion], prev |-> [v \in Versions |-> NullVersion]]

NewVersion(vs, v, linked) ==
    LET link == IF v \in linked THEN v ELSE NullVersion
    IN [vs EXCEPT !.alive = @ \cup {v}, !.next[v] = link, !.prev[v] = link]

\* ~version, which follows prev_ and next_: they must not be null.  What is
\* freed keeps its pointers.
Unlink(vs, v) ==
    [vs EXCEPT !.alive = @ \ {v}, !.next[vs.prev[v]] = vs.next[v], !.prev[vs.next[v]] = vs.prev[v]]

Ref(vs, v) == [vs EXCEPT !.refs[v] = @ + 1]
UnRef(vs, v) ==
    LET less == [vs EXCEPT !.refs[v] = @ - 1]
    IN IF less.refs[v] = 0 THEN Unlink(less, v) ELSE less

\* dummy_versions_.prev_ is followed: it must not be null.
AppendVersion(vs, v) ==
    LET left == IF vs.current = NullVersion THEN vs ELSE UnRef(vs, vs.current)
        last == left.prev[Dummy]
    IN Ref([left EXCEPT !.current = v, !.prev[v] = last, !.next[v] = Dummy,
                        !.next[last] = v, !.prev[Dummy] = v], v)

\* The constructor of builder.
\* Mutant: the builder does not keep the version it starts from.
Builder_NoRef(vs) == vs
Builder(vs) == Ref(vs, vs.current)

\* version_set's constructor up to append_version, and all of it.
HeadOnly(linked) == NewVersion(NewVersion(NoVersions, Dummy, linked), FirstVersion, linked)
NewVersionSet(linked) == AppendVersion(HeadOnly(linked), FirstVersion)

\* version_set::recover: the builder outlives the new version's append, which
\* drops the reference the version_set had to the builder's base.
RecoverFailed(vs) == UnRef(Builder(vs), vs.current)
RecoverAppends(vs, linked) ==
    UnRef(AppendVersion(NewVersion(Builder(vs), RecoveredVersion, linked), RecoveredVersion),
          vs.current)

\* version_set::log_any_apply: the builder ends before the manifest is written,
\* the new version is appended or deleted after it.  Nothing has linked a version
\* that is deleted: whether it can be is its constructor's doing.
ApplyBuilds(vs, linked) == UnRef(Builder(NewVersion(vs, AppliedVersion, linked)), vs.current)
ApplyAppends(vs) == AppendVersion(vs, AppliedVersion)
AppliedUnlinked(vs) == vs.prev[AppliedVersion] = NullVersion
ApplyDeletes(vs) == Unlink(vs, AppliedVersion)

\* The list runs through current_ alone, in both directions, current_ has one
\* reference, and what log_any_apply still builds has none and does not point
\* into the list.  No freed version is counted or pointed to.
Exact(vs) ==
    LET new == vs.alive \ {Dummy, vs.current} IN
    /\ {Dummy, vs.current} \subseteq vs.alive
    /\ new \subseteq {AppliedVersion}
    /\ vs.next[Dummy] = vs.current /\ vs.next[vs.current] = Dummy
    /\ vs.prev[Dummy] = vs.current /\ vs.prev[vs.current] = Dummy
    /\ \A v \in new : {vs.next[v], vs.prev[v]} \in {{v}, {NullVersion}}
    /\ \A v \in Versions : vs.refs[v] = IF v = vs.current THEN 1 ELSE 0
=============================================================================
