---------------------------- MODULE MCFleetSync ----------------------------
(* One machine, whose name the profiles spell in their own way: profiles that assign and adjust *)
(* it, release it, or give it an item that cannot be installed.                                *)
EXTENDS FleetSync

CONSTANT NoClients

P == INSTANCE Profiles WITH Lower <- [n \in {"BOX", "box"} |-> "box"]

Thing(id, body) == [id |-> id, body |-> body]
Groups == << [name |-> "base", items |-> {Thing("lint", 1), Thing("docs", 1)}],
             [name |-> "odd", items |-> {Thing("lint", 2), Thing("../x", 1)}] >>
ProfileOf(assignments, adjusted) ==
    [groups |-> Groups, assignments |-> assignments,
     devices |-> <<[device |-> "box", add |-> adjusted, remove |-> {"docs"},
                    override |-> [claude |-> "large"]]>>,
     clients |-> [claude |-> "small", codex |-> "small"]]
InBase == <<[device |-> "BOX", group |-> "base"]>>
ProfileSet == {ProfileOf(InBase, {"lint", "docs"}), ProfileOf(InBase, {"../x"}), ProfileOf(<< >>, {}),
               ProfileOf(<<[device |-> "BOX", group |-> "gone"]>>, {})}

\* The hub says the state without the clients' models (hub.ts 86), and the agent refuses one
\* with an unsafe name in it.
Wanted(p, d) ==
    LET state == P!DesiredStateFor(p, d)
    IN  IF state = Unassigned THEN Unassigned
        ELSE IF \E x \in state.items : x.id = "../x" THEN Refused ELSE [items |-> state.items]
MCWants == {[d \in Devices |-> Wanted(p, d)] : p \in {q \in ProfileSet : P!ParseProfile(q)}}

\* What is added replaces what the group has, and removal goes last (proto/index.ts 127-129).
ASSUME AdjustmentAssumption ==
    P!DesiredStateFor(ProfileOf(InBase, {"lint", "docs"}), "box")
        = [items |-> {Thing("lint", 2)}, clients |-> [claude |-> "large", codex |-> "small"]]
=============================================================================
