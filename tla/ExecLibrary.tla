----------------------------- MODULE ExecLibrary -----------------------------
(***************************************************************************)
(* What other parts call, each by itself: the memory managers and pools of *)
(* exec, the lists, tag lists and dates of teklib, and what the web server *)
(* makes of a request.  They share no state; a behaviour is one of one of  *)
(* them.                                                                   *)
(***************************************************************************)
EXTENDS ExecMemory, TekTime

CONSTANTS
  List, Node, Unnamed,   (* of TekList                                     *)
  BufLen,                (* of CgiPost                                     *)
  MaxBody, MaxPad        (* bounds on the requests                         *)

(* Contents with all sorts of parts of a separator; and wherever they are  *)
(* in the stream.                                                          *)
Xs(n) == [i \in 1..n |-> "x"]
Contents ==
  {Xs(n) \o part \o Xs(m) : n \in 0..MaxBody, m \in 0..1,
     part \in {<<>>, <<"cr">>, <<"cr", "lf">>, <<"cr", "lf", "cr">>, <<"lf", "boundary">>}}
Parts(name, pads, bodies) == [name : {name}, pad : pads, body : bodies]
Requests ==
  LET first == Parts("a", 0..MaxPad, Contents) IN
  {<<p>> : p \in first} \cup (first \X Parts("b", {0}, {<<>>, Xs(BufLen - 1)}))

VARIABLES
  part,               (* whose behaviour this is                           *)
  succ, pred, got,    (* of TekList                                        *)
  lists,              (* of TekTags                                        *)
  dates,              (* two dates, for TekTime                            *)
  post, rest, fifo, state, pattern, busy, name, data, args  (* of CgiPost  *)

listvars == <<succ, pred, got>>
postvars == <<post, rest, fifo, state, pattern, busy, name, data, args>>
libvars == <<part, vars, listvars, lists, dates, postvars>>

Lists == INSTANCE TekList
ASSUME ListAssumption == Lists!ConstantsOK
Tags == INSTANCE TekTags
Posts == INSTANCE CgiPost WITH Post <- Requests

LibInit ==
  /\ Init /\ Lists!Init
  /\ \/ part \in {"memory", "lists", "post"} /\ lists = <<>> /\ dates = <<0, 0>>
     \/ part = "tags" /\ Tags!Init /\ dates = <<0, 0>>
     \/ part = "dates" /\ dates \in Dates \X Dates /\ lists = <<>>
  /\ IF part = "post" THEN Posts!Init ELSE Posts!NoPost

LibNext ==
  /\ \/ part = "memory" /\ Next /\ UNCHANGED <<listvars, postvars>>
     \/ part = "lists" /\ Lists!Next /\ UNCHANGED <<vars, postvars>>
     \/ part = "post" /\ Posts!Next /\ UNCHANGED <<vars, listvars>>
  /\ UNCHANGED <<part, lists, dates>>

LibSpec == LibInit /\ [][LibNext]_libvars

(* Lists are alike, and so are the nodes without a name.                   *)
Symmetry == Permutations(List) \cup Permutations(Unnamed)
-----------------------------------------------------------------------------
(* Whatever the operations on a list are, and in whatever order they come: *)
(* its pointers forward and backward describe the same sequence of nodes,  *)
(* and the calls return what they would for that.                          *)
ImplementsNodeList == Lists!ImplementsNodeList

(* TForEachTag and TGetTag agree on what is in a tag list; dates and times *)
(* can be taken apart and put together.                                    *)
TagsAndDatesAgree ==
  (part = "tags" => Tags!TagsAgree) /\ Compose(dates[1], dates[2])

(* The arguments of a request are those that have been sent, wherever the  *)
(* buffers end in which they come.                                         *)
ArgumentsAgree == part = "post" => Posts!ArgumentsAgree
=============================================================================
