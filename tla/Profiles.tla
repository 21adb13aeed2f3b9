------------------------------ MODULE Profiles ------------------------------
(***************************************************************************)
(* What a profile says of one device.                                      *)
(*                                                                         *)
(* A profile is [groups, assignments, devices, clients]: the groups in     *)
(* their order, each [name, items]; who is in which group, [device, group];*)
(* adjustments per device, [device, add, remove, override]; and the models *)
(* of the clients, a function, or NoClients.  An item has an id and a      *)
(* body: two groups may define the same id differently.  Skills, rules and *)
(* MCP servers are treated alike.                                          *)
(***************************************************************************)
EXTENDS Sequences, SequencesExt

CONSTANTS Lower,       \* the name of a device in lower case, for every spelling of it
          Unassigned,  \* what a profile says of a device it does not assign
          NoClients    \* of a profile without models

\* parseProfile: everybody is assigned to a group that there is.
ParseProfile(p) ==
    \A i \in DOMAIN p.assignments : \E j \in DOMAIN p.groups : p.groups[j].name = p.assignments[i].group

\* The entry of a device, however it is spelled: the first one counts.
Entries(table, device) == SelectSeq(table, LAMBDA e : Lower[e.device] = Lower[device])

\* allItems: of an id that several groups define, the last definition.
AllItems(p, id) ==
    LET defining == SelectSeq(p.groups, LAMBDA g : \E x \in g.items : x.id = id)
    IN  IF defining = << >> THEN {} ELSE {x \in Last(defining).items : x.id = id}

\* pick: what is added takes the place of what the group has, and what is removed goes last.
Pick(p, base, entry) ==
    LET added == UNION {AllItems(p, id) : id \in entry.add}
        kept == {x \in base : \A y \in added : y.id # x.id}
    IN  {x \in kept \cup added : x.id \notin entry.remove}

\* A device may choose other models, but only where the profile chooses any.
Chosen(p, entry) ==
    IF p.clients = NoClients THEN NoClients
    ELSE [c \in DOMAIN p.clients |-> IF c \in DOMAIN entry.override THEN entry.override[c] ELSE p.clients[c]]

DesiredStateFor(p, device) ==
    LET mine == Entries(p.assignments, device)
        entries == Entries(p.devices, device)
        base == UNION {p.groups[i].items : i \in {j \in DOMAIN p.groups : p.groups[j].name = mine[1].group}}
    IN  IF mine = << >> THEN Unassigned
        ELSE IF entries = << >> THEN [items |-> base, clients |-> p.clients]
        ELSE [items |-> Pick(p, base, entries[1]), clients |-> Chosen(p, entries[1])]
=============================================================================
