------------------------------- MODULE ListStore -------------------------------
(***************************************************************************)
(* What the saved lists promise: one durable sequence of lists that        *)
(* changes by whole operations, in the order they were asked for.  An      *)
(* operation that cannot be done is refused, one may be lost with the      *)
(* device's storage or the app, and none is ever half done or undone.      *)
(***************************************************************************)
EXTENDS Naturals, Sequences, FiniteSets

CONSTANTS
  Ids, Names, Symbols,
  MaxSymbols      \* MAX_LIST_SYMBOLS

(* isSavedList: the rest of what a list holds is no matter here.           *)
List == [id : Ids, name : Names, symbols : {s \in SUBSET Symbols : s # {} /\ Cardinality(s) <= MaxSymbols}]
Ops ==
  [op : {"append"}, list : List]
  \cup [op : {"rename"}, id : Ids, name : Names]
  \cup [op : {"add", "drop"}, id : Ids, symbol : Symbols]
  \cup [op : {"remove"}, id : Ids]

VARIABLES
  lists,    \* the saved lists
  asked     \* operations asked for and not done

Position(ls, id) == {i \in DOMAIN ls : ls[i].id = id}

(* findIndex: the place of the first list with the id, if there is one.    *)
Found(ls, id) == {i \in Position(ls, id) : \A j \in Position(ls, id) : i <= j}

(* An operation on an existing list is refused when the list is missing,   *)
(* the symbol is there already or not there, or the list would be too long *)
(* or empty.                                                               *)
Possible(ls, o) ==
  IF o.op = "append" THEN TRUE
  ELSE \E i \in Found(ls, o.id) :
         /\ o.op = "add" => o.symbol \notin ls[i].symbols /\ Cardinality(ls[i].symbols) < MaxSymbols
         /\ o.op = "drop" => o.symbol \in ls[i].symbols /\ Cardinality(ls[i].symbols) > 1

Changed(l, o) ==
  CASE o.op = "rename" -> [l EXCEPT !.name = o.name]
    [] o.op = "add" -> [l EXCEPT !.symbols = @ \cup {o.symbol}]
    [] o.op = "drop" -> [l EXCEPT !.symbols = @ \ {o.symbol}]

(* Array.filter: every other list, in the order they are in.               *)
InOrder(S) == {at \in [1..Cardinality(S) -> S] : \A i, j \in DOMAIN at : i < j => at[i] < at[j]}
Without(ls, id) == {[k \in DOMAIN at |-> ls[at[k]]] : at \in InOrder({i \in DOMAIN ls : ls[i].id # id})}

Results(ls, o) ==
  CASE o.op = "append" -> {Append(ls, o.list)}
    [] o.op = "remove" -> Without(ls, o.id)
    [] OTHER -> {[ls EXCEPT ![i] = Changed(@, o)] : i \in Found(ls, o.id)}

Init == lists \in Seq(List) /\ asked = <<>>

Ask == \E o \in Ops : asked' = Append(asked, o) /\ UNCHANGED lists

Do ==
  /\ asked # <<>> /\ Possible(lists, Head(asked))
  /\ lists' \in Results(lists, Head(asked)) /\ asked' = Tail(asked)

Drop == asked # <<>> /\ asked' = Tail(asked) /\ UNCHANGED lists

Restart ==
  /\ asked' = <<>>
  /\ \/ UNCHANGED lists
     \/ asked # <<>> /\ Possible(lists, Head(asked)) /\ lists' \in Results(lists, Head(asked))

Next == Ask \/ Do \/ Drop \/ Restart

Spec == Init /\ [][Next]_<<lists, asked>>
=============================================================================
