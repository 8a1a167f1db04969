--------------------------- MODULE MCAccessControl ---------------------------
(***************************************************************************)
(* An instance of AccessControl for TLC: one gate, two plates, one of them *)
(* with two spellings, and a text that normalises to nothing.              *)
(***************************************************************************)
EXTENDS AccessControl, TLC

Spellings == {"kaa-1", "KAA 1", "KBB2", "--"}
Normal == "kaa-1" :> 1 @@ "KAA 1" :> 1 @@ "KBB2" :> 2 @@ "--" :> 0

\* Cars between 22:00 and 02:00 on Mondays; anyone before second 50.
Night == [from |-> 0, until |-> 0, classes |-> {"CAR"},
          windows |-> {[start |-> 1320, end |-> 120, days |-> {0}]}]
Early == [from |-> 0, until |-> 50, classes |-> {}, windows |-> {}]
Entries == {Night, Early}

Row(s, e) == [text |-> s, entry |-> e]

\* One row; the same plate twice; both plates; a row that fails after one that does not.
Batches == {<<Row("KAA 1", Early)>>,
            <<Row("kaa-1", Early), Row("KAA 1", Night)>>,
            <<Row("KBB2", Night), Row("kaa-1", Night)>>,
            <<Row("KBB2", Early), Row("--", Early)>>}

TextLists == {<<"KAA 1", "kaa-1">>, <<"KBB2", "kaa-1">>}

Seen(s, det, ocr) == [text |-> s, det |-> det, ocr |-> ocr]
Is(c, conf) == [class |-> c, conf |-> conf]
At(plates, vehicles) == [gate |-> "gate-01", plates |-> plates, vehicles |-> vehicles]

\* A car just at the threshold; a truck, its plate beside a weaker one and a
\* weaker classification; no plate; a plate without a vehicle; an unreadable plate.
Frames == {At(<<Seen("kaa-1", 80, 60)>>, <<Is("CAR", 70)>>),
           At(<<Seen("KBB2", 40, 99), Seen("KAA 1", 90, 80)>>, <<Is("CAR", 30), Is("TRUCK", 90)>>),
           At(<<>>, <<Is("CAR", 90)>>),
           At(<<Seen("kaa-1", 95, 95)>>, <<>>),
           At(<<Seen("--", 95, 95)>>, <<Is("CAR", 90)>>)}

\* Monday 01:59 in time for both entries; Monday 02:00, the end of both.
Instants == {[unix |-> 49, minute |-> 119, wday |-> 1],
             [unix |-> 50, minute |-> 120, wday |-> 1]}

Calls(r, f, c, e, w, s) ==
  [requests |-> r, frames |-> f, commands |-> c, edits |-> e, walks |-> w, restarts |-> s]

\* Edits around a question or a frame; a question among two latches and a restart;
\* a frame among a latch, an edit and a restart, two at a time; two frames;
\* edits around two listings.
Budgets == {Calls(1, 0, 0, 4, 0, 0), Calls(0, 1, 0, 2, 0, 0), Calls(1, 0, 2, 0, 0, 1),
            Calls(0, 1, 1, 1, 0, 0), Calls(0, 1, 1, 0, 0, 1), Calls(0, 1, 0, 1, 0, 1),
            Calls(0, 2, 0, 0, 0, 0), Calls(0, 0, 0, 5, 2, 0)}

OneOfEach == {Calls(0, 1, 1, 1, 0, 0)}

Threads == Permutations(Handler) \cup Permutations(Operator)

=============================================================================
