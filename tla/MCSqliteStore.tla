---------------------------- MODULE MCSqliteStore ----------------------------
(* SqliteStore on two addresses, two titles and two items: item a in two      *)
(* versions, the second an image without visible text and without a date,     *)
(* and item b in one, published when a1 was.                                  *)
EXTENDS SqliteStore

MCVersions == {"a1", "a2", "b1"}
MCGuidOf == [v \in MCVersions |-> IF v = "b1" THEN "b" ELSE "a"]
MCPublished == [v \in MCVersions |-> IF v = "a2" THEN 0 ELSE 1]
MCWords == {"alpha", "beta", "story"}
MCTitleText == [v \in MCVersions |-> IF v = "b1" THEN {"beta"} ELSE {"alpha"}]
MCSummaryText == [v \in MCVersions |-> {}]
MCBodyText ==
    [v \in MCVersions \cup {"article"} |->
        CASE v = "a1" -> {"beta"} [] v = "a2" -> {} [] v = "b1" -> {} [] OTHER -> {"story"}]
MCFold == [t \in {"News", "Tech"} |-> IF t = "News" THEN "news" ELSE "tech"]
MCBatches == {<<"a1">>, <<"a2">>, <<"a1", "b1">>}
MCQueries ==
    {[status |-> "any", starred |-> FALSE, order |-> "pub", limit |-> 1],
     [status |-> "unread", starred |-> TRUE, order |-> "pub", limit |-> 2],
     [status |-> "any", starred |-> FALSE, order |-> "read", limit |-> 1]}

\* Answers are outputs: no step reads the last one.
View == <<db, phase, lastID, deleting, ops, crashes>>
=============================================================================
