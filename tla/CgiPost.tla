------------------------------ MODULE CgiPost -------------------------------
(***************************************************************************)
(* The arguments of a multipart POST request (src/tek/class/cgi.lua), that *)
(* come as a stream of which the server gets a buffer at a time, wherever  *)
(* the separators are.  A step is a turn of the loop in CGI:updatePost, or *)
(* a turn of that in CGI:serve.                                            *)
(*                                                                         *)
(* Characters are symbols, a boundary is one, and so is the line of a      *)
(* header that gives an argument its name.  Arguments that are stored in a *)
(* file and those that are stored in a FIFO have the same fate; requests   *)
(* of other kinds are read as a whole.                                     *)
(***************************************************************************)
EXTENDS Fifo

CONSTANTS
  BufLen,   (* 8192: of a buffer, and of what is read for an argument       *)
  Post      (* the requests: sequences of parts of different names         *)

VARIABLES
  post,     (* the request: its parts have a name, a body and, if pad is    *)
            (* not 0, another header line of pad characters                 *)
  rest,     (* of the stream, that has not been read                        *)
  fifo,     (* what has been read and not been looked at                    *)
  state,    (* self.ParseState                                              *)
  pattern,  (* self.Separator                                               *)
  busy,     (* CGI:updatePost is running                                    *)
  name,     (* self.ArgName                                                 *)
  data,     (* what has been written to self.ArgFD or self.ArgBuffer        *)
  args      (* self.Arguments                                               *)

postvars == <<post, rest, fifo, state, pattern, busy, name, data, args>>

Newline == <<"cr", "lf">>
Separator == Newline \o <<"boundary">>

(* What a client sends. *)
Header(part) ==
  (IF part.pad = 0 THEN <<>> ELSE [i \in 1..part.pad |-> "x"] \o Newline)
    \o <<part.name>> \o Newline \o Newline
Part(part) == Newline \o Header(part) \o part.body \o Separator
Stream(parts) ==
  <<"boundary">> \o FlattenSeq([i \in DOMAIN parts |-> Part(parts[i])])
    \o <<"end">> \o Newline

(* CGI:beginPost *)
Init ==
  /\ post \in Post
  /\ rest = Stream(post)
  /\ fifo = <<>>
  /\ state = "separator" /\ pattern = <<"boundary">> \o Newline
  /\ busy = FALSE
  /\ name = None /\ data = <<>>
  /\ args = <<>>

NoPost ==
  /\ post = <<>> /\ rest = <<>> /\ fifo = <<>> /\ state = "done"
  /\ pattern = <<>> /\ busy = FALSE /\ name = None /\ data = <<>> /\ args = <<>>

(* CGI:serve reads a buffer. *)
Read ==
  /\ ~busy /\ rest # <<>> /\ state # "done"
  /\ fifo' = FifoWrite(fifo, UpTo(rest, BufLen))
  /\ rest' = From(rest, Min({BufLen, Len(rest)}) + 1)
  /\ busy' = TRUE
  /\ UNCHANGED <<post, state, pattern, name, data, args>>

(* CGI:endPost, after all that was announced, or all that came. *)
EndPost ==
  /\ ~busy /\ state # "done"
  /\ state' = "done"
  /\ UNCHANGED <<post, rest, fifo, pattern, busy, name, data, args>>

Turn(from, read) == busy /\ state = from /\ fifo' = read.buf /\ UNCHANGED <<post, rest>>

Becomes(to, pat) == state' = to /\ pattern' = pat

(* There is not enough to go on with. *)
NeedMore(from, read) ==
  /\ Turn(from, read) /\ read.got = None
  /\ busy' = FALSE
  /\ UNCHANGED <<state, pattern, name, data, args>>

AfterSeparator(read) ==
  /\ Turn("separator", read) /\ read.got # None
  /\ Becomes("header", Newline)
  /\ UNCHANGED <<busy, name, data, args>>

NextPart(read) ==
  /\ Turn("next", read) /\ read.got # None
  /\ Becomes("header", pattern)
  /\ UNCHANGED <<busy, name, data, args>>

EndOfHeaders(read) ==
  /\ Turn("header", read) /\ read.got = <<>>
  /\ Becomes("stream", Separator)
  /\ UNCHANGED <<busy, name, data, args>>

Names == {part.name : part \in UNION {Range(p) : p \in Post}}

HeaderLine(read) ==
  /\ Turn("header", read) /\ read.got \notin {None, <<>>}
  /\ IF Len(read.got) = 1 /\ read.got[1] \in Names
     THEN name' = read.got[1] /\ data' = <<>>
     ELSE UNCHANGED <<name, data>>
  /\ UNCHANGED <<state, pattern, busy, args>>

(* An argument without contents is left out: a file that is empty, and an  *)
(* empty buffer, from which nothing can be read.                           *)
Store(contents) ==
  IF contents = <<>> THEN [n \in DOMAIN args \ {name} |-> args[n]]
  ELSE (name :> contents) @@ args

Contents(read) ==
  /\ Turn("stream", read) /\ read.got # None
  /\ data' = data \o read.got
  /\ IF read.full
     THEN Becomes("next", Newline) /\ args' = Store(data \o read.got)
     ELSE UNCHANGED <<state, pattern, args>>
  /\ UNCHANGED <<busy, name>>

UpdatePost ==
  LET line == ReadPat(fifo, pattern)
      block == ReadPatLen(fifo, pattern, BufLen)
  IN \/ NeedMore("stream", block) \/ Contents(block)
     \/ \E s \in {"separator", "header", "next"} : NeedMore(s, line)
     \/ AfterSeparator(line) \/ NextPart(line)
     \/ EndOfHeaders(line) \/ HeaderLine(line)

Next == Read \/ EndPost \/ UpdatePost

Spec == Init /\ [][Next]_postvars
-----------------------------------------------------------------------------
(* The stream up to the i-th part, and up to its contents. *)
Before(i) ==
  Len(FlattenSeq(<<<<"boundary">>>> \o [j \in 1..(i - 1) |-> Part(post[j])]))
Offset(i) == Before(i) + Len(Newline) + Len(Header(post[i]))
Received(i) == Before(i + 1) <= Len(Stream(post)) - Len(rest)

(* What is looked at for an argument is a buffer, and what was left of the *)
(* one before: less than a separator.  If the separator begins at the end  *)
(* of the length to be read, it may not yet be there as a whole.           *)
IsSplit(i) ==
  LET left == (BufLen - (Offset(i) % BufLen)) % BufLen
  IN (Len(post[i].body) % BufLen) > BufLen + left - Len(Separator)

(* Wherever the buffers of a request begin and end: the arguments are      *)
(* those that have been sent, with their contents and no more, from the    *)
(* moment they have been received; also if the rest never comes.  It is so *)
(* exactly when no separator is split as described above: then             *)
(* FIFO:readpatlen returns the first part of it as contents, and the       *)
(* argument never ends.                                                    *)
ArgumentsAgree ==
  ~busy =>
    LET received == {i \in DOMAIN post : Received(i)}
        sent == {i \in received : post[i].body # <<>>}
    IN (\E i \in received : IsSplit(i))
         # (args = [n \in {post[i].name : i \in sent} |->
                      post[CHOOSE i \in sent : post[i].name = n].body])
=============================================================================
