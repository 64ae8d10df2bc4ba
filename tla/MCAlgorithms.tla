---------------------------- MODULE MCAlgorithms ----------------------------
(* Forms, Listings and RateLimiter run side by side for TLC: which of the   *)
(* three a behaviour is about is chosen at the start.                       *)
EXTENDS Forms, Listings, Search, RateLimiter

VARIABLE part

Line == <<"string">>
Picture == <<"upload">>
Card == <<"object", [image |-> Picture, caption |-> Line]>>
Card2(f, w) == ObjectOf([image |-> Upload(f), caption |-> Text(w)])

Article == <<"object",
  [title |-> Line, size |-> <<"number">>, ok |-> <<"boolean">>,
   tone |-> <<"enum", {Text("x"), Text("y")}>>, body |-> <<"richtext">>,
   meta |-> <<"object", [image |-> Picture, author |-> <<"reference", {Text("p")}>>]>>]>>
Cards == <<"object", [cards |-> <<"array", Card>>]>>
Lists == <<"object", [tags |-> <<"array", Line>>, images |-> <<"array", Picture>>,
                      flags |-> <<"array", <<"boolean">>>>]>>
Rows == <<"object", [rows |-> <<"array",
           <<"object", [name |-> Line, cells |-> <<"array", Card>>]>>>>]>>
Odd == <<"object", [bodies |-> <<"array", <<"richtext">>>>,
                    grid |-> <<"array", <<"array", Line>>>>,
                    authors |-> <<"array", <<"reference", {Text("p")}>>>>]>>
Deep == <<"object", [a |-> <<"object", [a |-> <<"object",
           [a |-> <<"object", [b |-> Line]>>]>>]>>]>>

\* New entries, and entries with values of every kind, with values a form
\* leaves out, in arrays and arrays in arrays, and with what it cannot carry.
MCForms == {
  <<Article, Null>>,
  <<Article, ObjectOf([title |-> Text("t"), size |-> Number(1), ok |-> Bool(TRUE),
     tone |-> Text("y"), body |-> Richtext("r"),
     meta |-> ObjectOf([image |-> Upload("f"), author |-> Text("p")])])>>,
  <<Article, ObjectOf([title |-> Text(""), ok |-> Bool(FALSE), gone |-> Text("t")])>>,
  <<Article, ObjectOf([tone |-> Text("z")])>>,
  <<Cards, ObjectOf([cards |-> ArrayOf(<<Card2("f", "a"),
              ObjectOf([caption |-> Text("b")]), Card2("g", "c")>>)])>>,
  <<Lists, ObjectOf([tags |-> ArrayOf(<<Text("a"), Text("b"), Text("c")>>),
              images |-> ArrayOf(<<Upload("f"), Upload("g")>>),
              flags |-> ArrayOf(<<Bool(TRUE), Bool(FALSE)>>)])>>,
  <<Rows, ObjectOf([rows |-> ArrayOf(<<ObjectOf([name |-> Text("a"),
              cells |-> ArrayOf(<<Card2("f", "a"), Card2("g", "b")>>)])>>)])>>,
  <<Odd, ObjectOf([bodies |-> ArrayOf(<<Richtext("r")>>)])>>,
  <<Odd, ObjectOf([grid |-> ArrayOf(<<ArrayOf(<<Text("a")>>)>>)])>>,
  <<Odd, ObjectOf([authors |-> ArrayOf(<<Text("p")>>)])>>,
  <<Deep, ObjectOf([a |-> ObjectOf([a |-> ObjectOf([a |-> ObjectOf([b |-> Text("t")])])])])>>}

Entry(id, rec) == [id |-> id, data |-> ObjectOf(rec)]
MCLibrary == {
  Entry(1, [rank |-> Number(2), note |-> Text(1), _status |-> Text("published")]),
  Entry(2, [rank |-> Number(1), note |-> Text(1), _status |-> Text("draft")]),
  Entry(3, [meta |-> ObjectOf([note |-> Text(1)])]),
  Entry(4, [rank |-> Number(2), flag |-> Bool(TRUE), _status |-> Text("published")]),
  Entry(5, [rank |-> Number(1), note |-> Text(1), flag |-> Bool(TRUE)])}

MCMentions(d, text) == MatchesQuery(d, text, 0)
ASSUME SearchAssumption ==
  SearchFinds({e.data : e \in MCLibrary}, {Text(1), Text(2)})

\* The clock goes back once.
LogRow(id, day, time, action, app) ==
  [id |-> id, day |-> day, time |-> time, action |-> action, actor |-> "u", app |-> app]
MCLog == <<
  LogRow(1, 1, 0, "save", None), LogRow(2, 1, 5, "save", "blog"),
  LogRow(3, 3, 0, "fire", "blog"), LogRow(4, 2, 9, "save", None),
  LogRow(5, 3, 0, "save", "blog"), LogRow(6, 3, 1, "save", "blog")>>

Flagged == {[field |-> Field("flag"), values |-> {Bool(TRUE), Text("true")}]}
Sorting == [sort : {Field("_id"), Field("rank")}, order : {"asc", "desc"}]
MCQueries ==
  {[listing |-> "api", limit |-> l, status |-> s, filters |-> f, q |-> w,
    sort |-> o.sort, order |-> o.order] :
     l \in {None, 0, 1, 9}, s \in {"published", "draft"}, f \in {{}, Flagged},
     w \in {None, Text(1)}, o \in Sorting}
  \union
  {[listing |-> "ui", status |-> s, filters |-> {}, q |-> w,
    sort |-> o.sort, order |-> o.order] :
     s \in {"published", "draft", "all"}, w \in {None, Text(1)}, o \in Sorting}
  \union
  [listing : {"audit"}, action : {None, "save"}, actor : {None, "u"},
   app : {None, "global", "blog"}, from : {None, 2}, to : {None, 1, 2}]

OneOf(S) == CHOOSE x \in S : TRUE

Init ==
  /\ part \in {"forms", "listings", "limiter"}
  /\ FormInit /\ (part # "forms" => <<schema, meant>> = OneOf(Scenarios))
  /\ ListInit /\ (part # "listings" => entries = {} /\ rows = 0 /\ query = OneOf(Queries))
  /\ LimiterInit

Next ==
  \/ part = "forms" /\ FormNext /\ UNCHANGED <<part, listVars, limiterVars>>
  \/ part = "listings" /\ ListNext /\ UNCHANGED <<part, formVars, limiterVars>>
  \/ part = "limiter" /\ LimiterNext /\ UNCHANGED <<part, formVars, listVars>>

Spec == Init /\ [][Next]_<<part, formVars, listVars, limiterVars>>
=============================================================================
