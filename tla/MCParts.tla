------------------------------ MODULE MCParts ------------------------------
(* Instance of Parts: inputs of the data-driven parts.                     *)
EXTENDS Parts

\* Boxes inside, across and outside the canvas edges; texts with a blank between two
\* equal characters, without any character, and with a repetition.
Box(x, y, s, p) == [x1 |-> x[1], x2 |-> x[2], y1 |-> y[1], y2 |-> y[2], score |-> s, path |-> p]
Edges == {<<-1, 13>>, <<0, 5>>, <<5, 13>>, <<3, 4>>, <<12, 13>>}
Alone == {Box(x, y, 60, <<0, 1, 1, 0, 1>>) : x \in Edges, y \in Edges}
Crowd == {Box(<<0, 5>>, y, s, p) : y \in {<<3, 13>>, <<12, 13>>}, s \in {40, 60, 80},
                                   p \in {<<0, 3, 0>>, <<2, 2, 1>>}}
MCRawSets == {<<>>} \cup {<<a>> : a \in Alone} \cup {<<a, b>> : a, b \in Crowd}
               \cup {<<a, b, a>> : a, b \in {d \in Crowd : d.path = <<2, 2, 1>>}}

\* Scripts that are in order, and one for each reason to refuse one.
Plate(t, c) == [text |-> t, conf |-> c]
Vehicle(k, c) == [class |-> k, conf |-> c]
Event(o, p, v) == [offset |-> o, plates |-> p, vehicles |-> v]
Good == {Event(0, <<Plate("KAA", 90)>>, Missing), Event(2, Missing, <<Vehicle("suv", 100)>>),
         Event(1, Missing, Missing)}
Bad == {Event(Missing, Missing, Missing), Event(Mistyped, Missing, Missing),
        Event(-1, Missing, Missing), Event(0, Mistyped, Missing), Event(0, Missing, Mistyped),
        Event(0, <<Plate("KAA", 90), Plate(Missing, 90)>>, Missing),
        Event(0, <<Plate("", 90)>>, Missing), Event(0, <<Plate("KAA", 101)>>, Missing),
        Event(0, <<Plate("KAA", Mistyped)>>, Missing),
        Event(0, Missing, <<Vehicle("tank", 50)>>), Event(0, Missing, <<Vehicle("suv", -1)>>)}
Document(l, es) == [loop |-> l, events |-> es]
MCDocuments ==
  {Document(l, <<a, b>>) : l \in {Missing, 1, 2, 3, 4, 5}, a, b \in Good}
    \cup {Document(2, <<a, b>>) : a \in Good, b \in Bad}
    \cup {Document(l, <<a>>) : l \in {Mistyped, 0, -3}, a \in Good}
    \cup {Document(1, Missing), Document(1, Mistyped), Document(1, <<>>), Mistyped}

\* Two updates of a tile and an event that no tile shows.
MCScript == <<"telemetry", "decision", "telemetry">>

Entry(p, c, s, e) == [plate |-> p, classes |-> c, windows |-> {[start |-> s, end |-> e]}]
MCRequests ==
  {[op |-> "command", kind |-> "OPEN_GATE"], [op |-> "command", kind |-> "UNSPECIFIED"],
   [op |-> "upsert", entries |-> <<Entry("KAA", {"SUV"}, 0, 1439), Entry("KBB", {"SUV"}, 0, 1440)>>],
   [op |-> "list", pageSize |-> -1], [op |-> "remove", plate |-> "KAA"]}
MCConfigs ==
  {[hash |-> "none", pinned |-> FALSE], [hash |-> "garbled", pinned |-> TRUE],
   [hash |-> "hash", pinned |-> FALSE], [hash |-> "hash", pinned |-> TRUE]}

=============================================================================
