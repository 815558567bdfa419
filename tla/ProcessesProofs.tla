-------------------------- MODULE ProcessesProofs ---------------------------
(***************************************************************************)
(* Proofs about Processes, for every number of lines that fork-01.c writes *)
(* and every value that scanf may leave: every variable keeps its type,    *)
(* the values shown are the right ones, on a terminal no line comes out    *)
(* twice, the pipes of partB.c deliver, and the output keeps its order.    *)
(*                                                                         *)
(* The programs are looked at once, in section 2: each of their scripts    *)
(* has the shape of section 1, Script, which says what a process may call, *)
(* in which order, and what must still follow.  A script without its first *)
(* call is a script again, so from section 3 on only the calls matter that *)
(* a process has still to make.                                            *)
(***************************************************************************)
EXTENDS Processes, SequenceTheorems, TLAPS

-----------------------------------------------------------------------------
(* 1. The shape of a script *)

Names == {"printf", "endl", "write1", "fork", "wait", "increment", "scanf",
          "exit", "pipe", "close", "write", "read"}

Says(c) == c.call \in {"printf", "endl"}

ExitCode == "PARENT: Child's exit code"
Global   == "Global variable"

\* The programs whose output has an order, and what is printed outside it.
Ordered == {"partA", "partB", "fork_test"}
Free    == {"Begin", "PARENT: I am the parent process!"}

\* The pipe a process of partB.c writes to and what it writes, and the pipe it
\* reads from and what it reads there.
Out     == [parent |-> "pc", child |-> "cg", grandchild |-> "gp"]
In      == [parent |-> "gp", child |-> "pc", grandchild |-> "cg"]
Sent    == [parent |-> "from parent", child |-> "from child",
            grandchild |-> "from grandchild"]

\* Two calls print the same line.
SameLine(c, d) ==
  \/ Says(c) /\ Says(d) /\ c.text = d.text
  \/ c.call = "write1" /\ d.call = "write1" /\ c.value = d.value

\* What process p of program pr may print, and how it may end.
PlainOK(pr, p, c) ==
  /\ Says(c) => c.text \in Texts \ {"This line"}
  /\ Says(c) /\ c.text = ExitCode => pr = "fork_test" /\ p = "parent"
  /\ Says(c) /\ c.text = Global => pr = "fork_text" /\ p # "grandchild"
  /\ c.call = "write1" => pr = "fork_01" /\ c.value \in Int
  /\ c.call = "exit" =>
       /\ c.value \in {"variable", "one", "zero"}
       /\ pr = "partB" => c.value = "zero"
       /\ pr = "fork_test" /\ p = "child" => c.value = "variable"

\* What p does instead of the rest when its fork fails: it prints and ends.
FailureOK(pr, p, f) ==
  /\ f \in Seq(Range(f)) /\ f # <<>>
  /\ \E c \in Range(f) : c.call = "exit"
  /\ \A c \in Range(f) : /\ c.call \in {"printf", "write1", "exit"}
                         /\ PlainOK(pr, p, c)
                         /\ Says(c) => c.text # ExitCode
  /\ \A i, k \in 1..Len(f) : i < k => f[i].call # "exit" /\ ~SameLine(f[i], f[k])

CallOK(pr, p, c) ==
  /\ c.call \in Names
  /\ PlainOK(pr, p, c)
  /\ c.call = "increment" => pr = "fork_text" /\ p = "child"
  /\ c.call = "scanf" => pr = "fork_test" /\ p = "child"
  /\ c.call = "pipe" => p = "parent"
  /\ c.call = "close" => c.end \in Ends
  /\ c.call = "write" =>
       pr = "partB" /\ c.pipe = Out[p] /\ c.items = <<Sent[p], "\n">>
  /\ c.call = "read" => pr = "partB" /\ c.pipe = In[p]
  /\ c.call = "fork" => /\ c.who \in DOMAIN Parent /\ Parent[c.who] = p
                        /\ p = "child" => pr \in {"partA", "partB"}
                        /\ FailureOK(pr, p, c.failure)

\* Process p of program pr may make call c some time before call d.
MayPrecede(pr, p, c, d) ==
  /\ c.call # "exit"
  /\ c.call = d.call => c.call \in {"printf", "endl", "write1", "close"}
  /\ ~SameLine(c, d)
  /\ c.call = "close" /\ d.call = "close" => c.end # d.end
  /\ c.call = "close" /\ d.call = "read" => c.end # <<d.pipe, "r">>
  /\ c.call = "close" /\ d.call = "write" => c.end # <<d.pipe, "w">>
  /\ d.call = "pipe" => c.call = "printf"
  /\ d.call = "fork" => /\ c.call = "pipe" \/ (c.call = "printf" /\ c.newline)
                        /\ Says(c) /\ pr \in Ordered => c.text \in Free
                        /\ \A e \in Range(d.failure) : ~SameLine(c, e)
  /\ d.call = "wait" => /\ c.call = "read" => p # "parent"
                        /\ Says(c) /\ pr \in Ordered =>
                             c.text \in Free \/ (pr = "partB" /\ p = "child")
  /\ d.call = "increment" => ~Says(c)

Has(q, name) == \E c \in Range(q) : c.call = name
Closes(q, x, s) == \E c \in Range(q) : c.call = "close" /\ c.end = <<x, s>>

\* What follows on some calls, sooner or later.
Followed(pr, q) ==
  /\ q # <<>> => Has(q, "exit")
  /\ \A c \in Range(q) :
       /\ c.call = "read" => Closes(q, c.pipe, "r")
       /\ c.call = "write" => Closes(q, c.pipe, "w")
       /\ c.call = "pipe" => Has(q, "fork")
       /\ c.call = "fork" /\ pr \in Ordered => Has(q, "wait")

Script(pr, p, q) ==
  /\ q \in Seq(Range(q))
  /\ \A c \in Range(q) : CallOK(pr, p, c)
  /\ \A i, k \in 1..Len(q) : i < k => MayPrecede(pr, p, q[i], q[k])
  /\ Followed(pr, q)

-----------------------------------------------------------------------------
(* 2. The scripts of the programs *)

\* What stands in front of a sequence stands in front of it.
LEMMA ConsFacts ==
  ASSUME NEW c, NEW q, q \in Seq(Range(q))
  PROVE  /\ <<c>> \o q \in Seq({c} \cup Range(q))
         /\ Len(<<c>> \o q) = Len(q) + 1
         /\ (<<c>> \o q)[1] = c
         /\ \A i \in 1..Len(q) : (<<c>> \o q)[i + 1] = q[i]
         /\ Range(<<c>> \o q) = {c} \cup Range(q)
<1> DEFINE r == <<c>> \o q
<1>1. /\ r \in Seq({c} \cup Range(q)) /\ Len(r) = Len(q) + 1
      /\ r[1] = c /\ \A i \in 1..Len(q) : r[i + 1] = q[i]
  OBVIOUS
<1> HIDE DEF r
<1>2. DOMAIN r = 1..Len(r) /\ DOMAIN q = 1..Len(q) /\ Len(q) \in Nat
  BY <1>1
<1>3. ASSUME NEW x \in Range(r) PROVE x \in {c} \cup Range(q)
  BY <1>1, <1>2 DEF Range
<1>4. ASSUME NEW x \in Range(q) PROVE x \in Range(r)
  <2>1. PICK i \in 1..Len(q) : x = q[i]
    BY <1>2 DEF Range
  <2>2. i + 1 \in 1..Len(r) /\ r[i + 1] = x
    BY <2>1, <1>1, <1>2
  <2> QED BY <2>2, <1>2 DEF Range
<1>5. c \in Range(r)
  <2>1. 1 \in DOMAIN r
    BY <1>1, <1>2
  <2> QED BY <2>1, <1>1 DEF Range
<1>6. Range(r) = {c} \cup Range(q)
  BY <1>3, <1>4, <1>5
<1> QED BY <1>1, <1>6 DEF r

LEMMA TailFacts ==
  ASSUME NEW q, q \in Seq(Range(q)), q # <<>>
  PROVE  /\ Tail(q) \in Seq(Range(q)) /\ Len(Tail(q)) = Len(q) - 1 /\ Len(q) \in Nat \ {0}
         /\ Head(q) = q[1]
         /\ \A i \in 1..Len(Tail(q)) : Tail(q)[i] = q[i + 1]
         /\ Range(q) = {Head(q)} \cup Range(Tail(q))
         /\ Tail(q) \in Seq(Range(Tail(q)))
<1> DEFINE t == Tail(q)
<1>1. /\ t \in Seq(Range(q)) /\ Len(t) = Len(q) - 1 /\ Len(q) \in Nat \ {0}
      /\ Head(q) = q[1]
  OBVIOUS
<1>2. \A i \in 1..Len(t) : t[i] = q[i + 1]
  OBVIOUS
<1> HIDE DEF t
<1>3. DOMAIN t = 1..Len(t) /\ DOMAIN q = 1..Len(q) /\ Len(t) \in Nat
  BY <1>1
<1>4. ASSUME NEW x \in Range(q) PROVE x \in {Head(q)} \cup Range(t)
  <2>1. PICK i \in 1..Len(q) : x = q[i]
    BY <1>3 DEF Range
  <2>2. CASE i = 1
    BY <2>1, <2>2, <1>1
  <2>3. CASE i # 1
    <3>1. i - 1 \in 1..Len(t) /\ t[i - 1] = q[(i - 1) + 1] /\ (i - 1) + 1 = i
      BY <2>3, <1>1, <1>2, <1>3
    <3> QED BY <3>1, <2>1, <1>3 DEF Range
  <2> QED BY <2>2, <2>3
<1>5. ASSUME NEW x \in Range(t) PROVE x \in Range(q)
  <2>1. PICK i \in 1..Len(t) : x = t[i]
    BY <1>3 DEF Range
  <2>2. i + 1 \in 1..Len(q) /\ q[i + 1] = x
    BY <2>1, <1>1, <1>2, <1>3
  <2> QED BY <2>2, <1>3 DEF Range
<1>6. Head(q) \in Range(q)
  <2>1. 1 \in DOMAIN q
    BY <1>1, <1>3
  <2> QED BY <2>1, <1>1 DEF Range
<1>7. Range(q) = {Head(q)} \cup Range(t)
  BY <1>4, <1>5, <1>6
<1>8. t \in Seq(Range(t))
  <2>1. \A i \in 1..Len(t) : t[i] \in Range(t)
    BY <1>3 DEF Range
  <2> QED BY <2>1, <1>1, <1>3
<1> QED BY <1>1, <1>2, <1>7, <1>8 DEF t

\* Call c fits in front of script q: it may precede all of q, and q holds what must
\* follow it.
Fits(pr, p, c, q) ==
  /\ Script(pr, p, q) /\ q # <<>>
  /\ CallOK(pr, p, c) /\ \A d \in Range(q) : MayPrecede(pr, p, c, d)
  /\ c.call = "read" => Closes(q, c.pipe, "r")
  /\ c.call = "write" => Closes(q, c.pipe, "w")
  /\ c.call = "pipe" => Has(q, "fork")
  /\ c.call = "fork" /\ pr \in Ordered => Has(q, "wait")

\* The two make a script.
LEMMA FitsScript ==
  ASSUME NEW pr, NEW p, NEW q, NEW c, Fits(pr, p, c, q)
  PROVE  /\ Script(pr, p, <<c>> \o q) /\ <<c>> \o q # <<>>
         /\ Range(<<c>> \o q) = {c} \cup Range(q)
<1> /\ Script(pr, p, q) /\ q # <<>>
    /\ CallOK(pr, p, c) /\ \A d \in Range(q) : MayPrecede(pr, p, c, d)
    /\ c.call = "read" => Closes(q, c.pipe, "r")
    /\ c.call = "write" => Closes(q, c.pipe, "w")
    /\ c.call = "pipe" => Has(q, "fork")
    /\ c.call = "fork" /\ pr \in Ordered => Has(q, "wait")
  BY DEF Fits
<1> DEFINE r == <<c>> \o q
<1>1. /\ r \in Seq({c} \cup Range(q)) /\ Len(r) = Len(q) + 1
      /\ r[1] = c /\ \A i \in 1..Len(q) : r[i + 1] = q[i]
      /\ Range(r) = {c} \cup Range(q)
  <2>1. q \in Seq(Range(q))
    BY DEF Script
  <2>2. /\ <<c>> \o q \in Seq({c} \cup Range(q))
        /\ Len(<<c>> \o q) = Len(q) + 1
        /\ (<<c>> \o q)[1] = c
        /\ \A i \in 1..Len(q) : (<<c>> \o q)[i + 1] = q[i]
        /\ Range(<<c>> \o q) = {c} \cup Range(q)
    BY <2>1, ConsFacts
  <2> QED BY <2>2 DEF r
<1>2. Len(q) \in Nat /\ DOMAIN q = 1..Len(q)
  BY DEF Script
<1> HIDE DEF r
<1>3. r \in Seq(Range(r)) /\ r # <<>>
  BY <1>1, <1>2
<1>4. \A d \in Range(r) : CallOK(pr, p, d)
  BY <1>1 DEF Script
<1>5. ASSUME NEW i \in 1..Len(r), NEW k \in 1..Len(r), i < k
      PROVE  MayPrecede(pr, p, r[i], r[k])
  <2>1. k - 1 \in 1..Len(q) /\ r[k] = q[k - 1] /\ q[k - 1] \in Range(q)
    <3>1. k - 1 \in 1..Len(q) /\ k = (k - 1) + 1
      BY <1>5, <1>1, <1>2
    <3>2. r[(k - 1) + 1] = q[k - 1]
      BY <3>1, <1>1
    <3> QED BY <3>1, <3>2, <1>2 DEF Range
  <2>2. CASE i = 1
    BY <2>1, <2>2, <1>1
  <2>3. CASE i # 1
    <3>1. i - 1 \in 1..Len(q) /\ i = (i - 1) + 1 /\ i - 1 < k - 1
      BY <1>5, <1>1, <1>2, <2>3
    <3>2. r[(i - 1) + 1] = q[i - 1]
      BY <3>1, <1>1
    <3> QED BY <3>1, <3>2, <2>1 DEF Script
  <2> QED BY <2>2, <2>3
<1>6. Followed(pr, r)
  <2>1. Followed(pr, q)
    BY DEF Script
  <2>2. Has(r, "exit")
    BY <2>1, <1>1 DEF Followed, Has
  <2>3. \A name : Has(q, name) => Has(r, name)
    BY <1>1 DEF Has
  <2>4. \A x, s : Closes(q, x, s) => Closes(r, x, s)
    BY <1>1 DEF Closes
  <2>5. ASSUME NEW d \in Range(r)
        PROVE  /\ d.call = "read" => Closes(q, d.pipe, "r")
               /\ d.call = "write" => Closes(q, d.pipe, "w")
               /\ d.call = "pipe" => Has(q, "fork")
               /\ d.call = "fork" /\ pr \in Ordered => Has(q, "wait")
    <3>1. CASE d = c
      BY <3>1
    <3>2. CASE d \in Range(q)
      BY <3>2, <2>1 DEF Followed
    <3> QED BY <3>1, <3>2, <1>1
  <2> QED BY <2>2, <2>3, <2>4, <2>5 DEF Followed
<1>7. Script(pr, p, r)
  BY <1>3, <1>4, <1>5, <1>6 DEF Script
<1> QED BY <1>1, <1>3, <1>7 DEF r

\* exit alone is a script.
LEMMA ScriptExit ==
  ASSUME NEW pr, NEW p, NEW v, PlainOK(pr, p, Exit(v))
  PROVE  /\ Script(pr, p, <<Exit(v)>>) /\ <<Exit(v)>> # <<>>
         /\ Range(<<Exit(v)>>) = {Exit(v)}
<1> DEFINE e == Exit(v)
           q == <<e>>
<1>1. e.call = "exit"
  BY DEF Exit
<1> HIDE DEF e
<1>2. Len(q) = 1 /\ DOMAIN q = 1..1 /\ q[1] = e /\ q # <<>>
  OBVIOUS
<1>3. Range(q) = {e}
  BY DEF Range
<1>4. q \in Seq(Range(q))
  BY <1>3
<1> HIDE DEF q
<1>5. CallOK(pr, p, e)
  BY <1>1 DEF CallOK, Names, e
<1>6. \A i, k \in 1..Len(q) : ~(i < k)
  BY <1>2
<1>7. Followed(pr, q)
  BY <1>1, <1>3 DEF Followed, Has
<1>8. Script(pr, p, q)
  BY <1>3, <1>4, <1>5, <1>6, <1>7 DEF Script
<1> QED BY <1>8, <1>3, <1>2 DEF q, e

\* What is left of a script when its first call is made.
LEMMA ScriptTail ==
  ASSUME NEW pr, NEW p, NEW q, Script(pr, p, q), q # <<>>
  PROVE  /\ CallOK(pr, p, Head(q))
         /\ Range(q) = {Head(q)} \cup Range(Tail(q))
         /\ \A d \in Range(Tail(q)) : MayPrecede(pr, p, Head(q), d)
         /\ Head(q).call # "exit" => Script(pr, p, Tail(q)) /\ Tail(q) # <<>>
<1> DEFINE t == Tail(q)
<1>1. /\ t \in Seq(Range(q)) /\ Len(t) = Len(q) - 1 /\ Len(q) \in Nat \ {0}
      /\ Head(q) = q[1]
      /\ \A i \in 1..Len(t) : t[i] = q[i + 1]
      /\ Range(q) = {Head(q)} \cup Range(t)
      /\ t \in Seq(Range(t))
  BY TailFacts DEF Script
<1> HIDE DEF t
<1>2. Len(t) \in Nat /\ DOMAIN t = 1..Len(t)
  BY <1>1
<1>3. CallOK(pr, p, Head(q))
  BY <1>1 DEF Script
<1>4. ASSUME NEW d \in Range(t) PROVE MayPrecede(pr, p, Head(q), d)
  <2>1. PICK i \in 1..Len(t) : d = t[i]
    BY <1>2 DEF Range
  <2>2. 1 \in 1..Len(q) /\ i + 1 \in 1..Len(q) /\ 1 < i + 1 /\ q[i + 1] = d
    BY <2>1, <1>1, <1>2
  <2>3. MayPrecede(pr, p, q[1], q[i + 1])
    BY <2>2 DEF Script
  <2> QED BY <2>2, <2>3, <1>1
<1>5. ASSUME Head(q).call # "exit" PROVE Script(pr, p, t) /\ t # <<>>
  <2>1. \A c \in Range(t) : CallOK(pr, p, c)
    BY <1>1 DEF Script
  <2>2. ASSUME NEW i \in 1..Len(t), NEW k \in 1..Len(t), i < k
        PROVE  MayPrecede(pr, p, t[i], t[k])
    <3>1. i + 1 \in 1..Len(q) /\ k + 1 \in 1..Len(q) /\ i + 1 < k + 1
      BY <2>2, <1>1, <1>2
    <3>2. MayPrecede(pr, p, q[i + 1], q[k + 1])
      BY <3>1 DEF Script
    <3> QED BY <3>2, <1>1
  <2>3. Followed(pr, q)
    BY DEF Script
  <2>4. Has(t, "exit")
    BY <1>5, <2>3, <1>1 DEF Followed, Has
  <2>5. t # <<>>
    BY <2>4, <1>2 DEF Has, Range
  <2>6. ASSUME NEW c \in Range(t)
        PROVE  /\ c.call = "read" => Closes(t, c.pipe, "r")
               /\ c.call = "write" => Closes(t, c.pipe, "w")
               /\ c.call = "pipe" => Has(t, "fork")
               /\ c.call = "fork" /\ pr \in Ordered => Has(t, "wait")
    <3>1. c \in Range(q) /\ MayPrecede(pr, p, Head(q), c)
      BY <1>1, <1>4
    <3>2. c.call = "read" => Closes(t, c.pipe, "r")
      BY <3>1, <2>3, <1>1 DEF Followed, Closes, MayPrecede
    <3>3. c.call = "write" => Closes(t, c.pipe, "w")
      BY <3>1, <2>3, <1>1 DEF Followed, Closes, MayPrecede
    <3>4. c.call = "pipe" => Has(t, "fork")
      BY <3>1, <2>3, <1>1 DEF Followed, Has, MayPrecede
    <3>5. c.call = "fork" /\ pr \in Ordered => Has(t, "wait")
      BY <3>1, <2>3, <1>1 DEF Followed, Has, MayPrecede
    <3> QED BY <3>2, <3>3, <3>4, <3>5
  <2>7. Followed(pr, t)
    BY <2>4, <2>6 DEF Followed
  <2> QED BY <2>1, <2>2, <2>5, <2>7, <1>1 DEF Script
<1> QED BY <1>1, <1>3, <1>4, <1>5 DEF t

\* exit is the last call.
LEMMA ScriptLast ==
  ASSUME NEW pr, NEW p, NEW q, Script(pr, p, q), q # <<>>, Head(q).call = "exit"
  PROVE  Range(q) = {Head(q)}
BY ScriptTail DEF MayPrecede

\* A tuple in front of a sequence, call by call.
LEMMA Pair ==
  ASSUME NEW a, NEW b
  PROVE  <<a, b>> = <<a>> \o <<b>>
<1> DEFINE s == <<a, b>>
           t == <<a>> \o <<b>>
<1>1. s \in Seq({a, b}) /\ t \in Seq({a, b})
  OBVIOUS
<1>2. Len(s) = 2 /\ s[1] = a /\ s[2] = b
  OBVIOUS
<1>3. Len(t) = 2 /\ t[1] = a /\ t[2] = b
  OBVIOUS
<1> HIDE DEF s, t
<1>4. Len(s) = Len(t) /\ \A i \in 1..Len(s) : s[i] = t[i]
  BY <1>2, <1>3
<1>5. s = t
  BY <1>1, <1>4, SeqEqual
<1> QED BY <1>5 DEF s, t

LEMMA Triple ==
  ASSUME NEW a, NEW b, NEW c
  PROVE  <<a, b, c>> = <<a>> \o (<<b>> \o <<c>>)
<1>1. <<a, b, c>> = <<a>> \o <<b, c>>
  OBVIOUS
<1> QED BY <1>1, Pair

LEMMA Quad ==
  ASSUME NEW a, NEW b, NEW c, NEW d
  PROVE  <<a, b, c, d>> = <<a>> \o (<<b>> \o (<<c>> \o <<d>>))
<1>1. <<a, b, c, d>> = <<a>> \o <<b, c, d>>
  OBVIOUS
<1> QED BY <1>1, Triple

\* Several sequences, joined from the left and from the right.  (Join has a name
\* because the provers are slow with what they know of \o.)
Join(a, b)               == a \o b
Left5(a, b, c, d, e)     == Join(Join(Join(Join(a, b), c), d), e)
Left6(a, b, c, d, e, f)  == Join(Left5(a, b, c, d, e), f)
Right5(a, b, c, d, e)    == Join(a, Join(b, Join(c, Join(d, e))))
Right6(a, b, c, d, e, f) == Join(a, Right5(b, c, d, e, f))

LEMMA JoinAssociative ==
  ASSUME NEW S
  PROVE  \A a, b, c \in Seq(S) : Join(Join(a, b), c) = Join(a, Join(b, c))
BY DEF Join

LEMMA JoinClosed ==
  ASSUME NEW S
  PROVE  \A a, b \in Seq(S) : Join(a, b) \in Seq(S)
BY DEF Join

LEMMA Regroup5 ==
  ASSUME NEW S, NEW a \in Seq(S), NEW b \in Seq(S), NEW c \in Seq(S),
         NEW d \in Seq(S), NEW e \in Seq(S)
  PROVE  Left5(a, b, c, d, e) = Right5(a, b, c, d, e)
<1>1. /\ Join(a, b) \in Seq(S) /\ Join(Join(a, b), c) \in Seq(S)
      /\ Join(d, e) \in Seq(S) /\ Join(c, Join(d, e)) \in Seq(S)
  BY JoinClosed
<1>2. Left5(a, b, c, d, e) = Join(Join(Join(a, b), c), Join(d, e))
  BY <1>1, JoinAssociative DEF Left5
<1>3. Join(Join(Join(a, b), c), Join(d, e)) = Join(Join(a, b), Join(c, Join(d, e)))
  BY <1>1, JoinAssociative
<1>4. Join(Join(a, b), Join(c, Join(d, e))) = Right5(a, b, c, d, e)
  BY <1>1, JoinAssociative DEF Right5
<1> QED BY <1>2, <1>3, <1>4

LEMMA Regroup6 ==
  ASSUME NEW S, NEW a \in Seq(S), NEW b \in Seq(S), NEW c \in Seq(S),
         NEW d \in Seq(S), NEW e \in Seq(S), NEW f \in Seq(S)
  PROVE  Left6(a, b, c, d, e, f) = Right6(a, b, c, d, e, f)
<1>1. /\ Right5(b, c, d, e, f) = Join(b, Join(c, Join(d, Join(e, f))))
      /\ Left5(a, b, c, d, e) = Right5(a, b, c, d, e)
      /\ Right5(a, b, c, d, e) = Join(a, Join(b, Join(c, Join(d, e))))
  BY Regroup5 DEF Right5
<1>2. /\ Join(d, e) \in Seq(S) /\ Join(c, Join(d, e)) \in Seq(S)
      /\ Join(b, Join(c, Join(d, e))) \in Seq(S)
  BY JoinClosed
<1>3. Join(Join(a, Join(b, Join(c, Join(d, e)))), f)
        = Join(a, Join(Join(b, Join(c, Join(d, e))), f))
  BY <1>2, JoinAssociative
<1>4. Join(Join(b, Join(c, Join(d, e))), f) = Join(b, Join(Join(c, Join(d, e)), f))
  BY <1>2, JoinAssociative
<1>5. Join(Join(c, Join(d, e)), f) = Join(c, Join(d, Join(e, f)))
  BY <1>2, JoinAssociative
<1> QED BY <1>1, <1>3, <1>4, <1>5 DEF Left6, Right6

\* A tuple in front of a sequence, and the same call by call.  (The two have
\* names because the provers cannot match the terms.)
Front2(a, b, r)       == <<a, b>> \o r
Front3(a, b, c, r)    == <<a, b, c>> \o r
Front4(a, b, c, d, r) == <<a, b, c, d>> \o r
Chain2(a, b, r)       == <<a>> \o (<<b>> \o r)
Chain3(a, b, c, r)    == <<a>> \o Chain2(b, c, r)
Chain4(a, b, c, d, r) == <<a>> \o Chain3(b, c, d, r)

LEMMA Unfold2 ==
  ASSUME NEW S, NEW a \in S, NEW b \in S, NEW r \in Seq(S)
  PROVE  Front2(a, b, r) = Chain2(a, b, r)
<1>1. <<a>> \in Seq(S) /\ <<b>> \in Seq(S)
  OBVIOUS
<1>2. \A x, y \in Seq(S) : (x \o y) \o r = x \o (y \o r)
  OBVIOUS
<1>3. (<<a>> \o <<b>>) \o r = <<a>> \o (<<b>> \o r)
  BY <1>1, <1>2, Zenon
<1>4. <<a, b>> \o r = <<a>> \o (<<b>> \o r)
  BY <1>3, Pair, Zenon
<1> QED BY <1>4 DEF Front2, Chain2

LEMMA Unfold3 ==
  ASSUME NEW S, NEW a \in S, NEW b \in S, NEW c \in S, NEW r \in Seq(S)
  PROVE  Front3(a, b, c, r) = Chain3(a, b, c, r)
<1>1. <<a>> \in Seq(S) /\ <<b, c>> \in Seq(S)
  OBVIOUS
<1>2. <<a, b, c>> = <<a>> \o <<b, c>>
  OBVIOUS
<1>3. \A x, y \in Seq(S) : (x \o y) \o r = x \o (y \o r)
  OBVIOUS
<1>4. (<<a>> \o <<b, c>>) \o r = <<a>> \o (<<b, c>> \o r)
  BY <1>1, <1>3, Zenon
<1>5. <<b, c>> \o r = Chain2(b, c, r)
  BY Unfold2 DEF Front2
<1>6. <<a, b, c>> \o r = <<a>> \o Chain2(b, c, r)
  BY <1>2, <1>4, <1>5, Zenon
<1> QED BY <1>6 DEF Front3, Chain3

LEMMA Unfold4 ==
  ASSUME NEW S, NEW a \in S, NEW b \in S, NEW c \in S, NEW d \in S, NEW r \in Seq(S)
  PROVE  Front4(a, b, c, d, r) = Chain4(a, b, c, d, r)
<1>1. <<a>> \in Seq(S) /\ <<b, c, d>> \in Seq(S)
  OBVIOUS
<1>2. <<a, b, c, d>> = <<a>> \o <<b, c, d>>
  OBVIOUS
<1>3. \A x, y \in Seq(S) : (x \o y) \o r = x \o (y \o r)
  OBVIOUS
<1>4. (<<a>> \o <<b, c, d>>) \o r = <<a>> \o (<<b, c, d>> \o r)
  BY <1>1, <1>3, Zenon
<1>5. <<b, c, d>> \o r = Chain3(b, c, d, r)
  BY Unfold3 DEF Front3
<1>6. <<a, b, c, d>> \o r = <<a>> \o Chain3(b, c, d, r)
  BY <1>2, <1>4, <1>5, Zenon
<1> QED BY <1>6 DEF Front4, Chain4
\* The fields of a fork.
LEMMA ParentFacts ==
  /\ DOMAIN Parent = {"child", "grandchild"}
  /\ Parent["child"] = "parent" /\ Parent["grandchild"] = "child"
BY DEF Parent

\* The ways in which the programs go on after a fork that has failed.
LEMMA ReturnFails ==
  ASSUME NEW pr, NEW p, NEW v, PlainOK(pr, p, Exit(v))
  PROVE  FailureOK(pr, p, <<Exit(v)>>) /\ \A e \in Range(<<Exit(v)>>) : ~Says(e)
<1>1. /\ <<Exit(v)>> \in Seq(Range(<<Exit(v)>>)) /\ <<Exit(v)>> # <<>>
      /\ Len(<<Exit(v)>>) = 1
      /\ Range(<<Exit(v)>>) = {Exit(v)}
  BY ScriptExit DEF Script
<1>2. Exit(v).call = "exit"
  BY DEF Exit
<1> QED BY <1>1, <1>2 DEF FailureOK, Says

\* A failure is handled by lines of text that differ, and an exit.
LEMMA FailureCons ==
  ASSUME NEW pr, NEW p, NEW f, NEW c, FailureOK(pr, p, f), PlainOK(pr, p, c),
         c.call = "printf", c.text # ExitCode,
         \A d \in Range(f) : ~SameLine(c, d)
  PROVE  FailureOK(pr, p, <<c>> \o f) /\ Range(<<c>> \o f) = {c} \cup Range(f)
<1> DEFINE r == <<c>> \o f
<1>0. f \in Seq(Range(f))
  BY DEF FailureOK
<1>1. /\ r \in Seq({c} \cup Range(f)) /\ Len(r) = Len(f) + 1
      /\ r[1] = c /\ \A i \in 1..Len(f) : r[i + 1] = f[i]
      /\ Range(r) = {c} \cup Range(f)
  <2>2. /\ <<c>> \o f \in Seq({c} \cup Range(f))
        /\ Len(<<c>> \o f) = Len(f) + 1
        /\ (<<c>> \o f)[1] = c
        /\ \A i \in 1..Len(f) : (<<c>> \o f)[i + 1] = f[i]
        /\ Range(<<c>> \o f) = {c} \cup Range(f)
    BY <1>0, ConsFacts
  <2> QED BY <2>2 DEF r
<1>2. Len(f) \in Nat /\ DOMAIN f = 1..Len(f)
  BY <1>0
<1> HIDE DEF r
<1>3. r \in Seq(Range(r)) /\ r # <<>>
  BY <1>1, <1>2
<1>4. ASSUME NEW d \in Range(r)
      PROVE  /\ d.call \in {"printf", "write1", "exit"}
             /\ PlainOK(pr, p, d)
             /\ Says(d) => d.text # ExitCode
  <2>1. CASE d = c
    BY <2>1
  <2>2. CASE d \in Range(f)
    BY <2>2 DEF FailureOK
  <2> QED BY <2>1, <2>2, <1>1
<1>5. \E d \in Range(r) : d.call = "exit"
  BY <1>1 DEF FailureOK
<1>6. ASSUME NEW i \in 1..Len(r), NEW k \in 1..Len(r), i < k
      PROVE  r[i].call # "exit" /\ ~SameLine(r[i], r[k])
  <2>1. k - 1 \in 1..Len(f) /\ r[k] = f[k - 1] /\ f[k - 1] \in Range(f)
    <3>1. k - 1 \in 1..Len(f) /\ k = (k - 1) + 1
      BY <1>6, <1>1, <1>2
    <3>2. r[(k - 1) + 1] = f[k - 1]
      BY <3>1, <1>1
    <3> QED BY <3>1, <3>2, <1>2 DEF Range
  <2>2. CASE i = 1
    BY <2>1, <2>2, <1>1
  <2>3. CASE i # 1
    <3>1. i - 1 \in 1..Len(f) /\ i = (i - 1) + 1 /\ i - 1 < k - 1
      BY <1>6, <1>1, <1>2, <2>3
    <3>2. r[(i - 1) + 1] = f[i - 1]
      BY <3>1, <1>1
    <3> QED BY <3>1, <3>2, <2>1 DEF FailureOK
  <2> QED BY <2>2, <2>3
<1>7. FailureOK(pr, p, r)
  BY <1>3, <1>4, <1>5, <1>6 DEF FailureOK
<1> QED BY <1>1, <1>7 DEF r

LEMMA ForkFailedFails ==
  ASSUME NEW pr \in {"partA", "partB"}
  PROVE  /\ FailureOK(pr, "parent", ForkFailed)
         /\ \A e \in Range(ForkFailed) : Says(e) => e.text = "Fork failed"
<1> DEFINE a == SayOpen("Fork failed")
           q == <<Exit("zero")>>
<1>a. a.call = "printf" /\ a.text = "Fork failed"
  BY DEF SayOpen
<1>b. Exit("zero").call = "exit" /\ Exit("zero").value = "zero"
  BY DEF Exit
<1>1. ForkFailed = <<a>> \o q
  BY DEF ForkFailed, Return
<1>2. PlainOK(pr, "parent", Exit("zero"))
  BY <1>b DEF PlainOK, Says
<1>3. FailureOK(pr, "parent", q) /\ \A e \in Range(q) : ~Says(e)
  BY <1>2, ReturnFails
<1>4. \A e \in Range(q) : e.call # "write1"
  <2>1. Range(q) = {Exit("zero")}
    BY <1>2, ScriptExit
  <2> QED BY <2>1, <1>b
<1> HIDE DEF a, q
<1>5. PlainOK(pr, "parent", a) /\ a.text # ExitCode
  BY <1>a DEF PlainOK, Says, Texts, ExitCode, Global
<1>6. \A d \in Range(q) : ~SameLine(a, d)
  BY <1>3, <1>4 DEF SameLine
<1>7. FailureOK(pr, "parent", <<a>> \o q) /\ Range(<<a>> \o q) = {a} \cup Range(q)
  BY <1>3, <1>5, <1>6, <1>a, FailureCons
<1> QED BY <1>1, <1>3, <1>7, <1>a

LEMMA ReturnOK ==
  ASSUME NEW pr, NEW p, ~(pr = "fork_test" /\ p = "child")
  PROVE  FailureOK(pr, p, Return) /\ \A e \in Range(Return) : ~Says(e)
<1>1. Exit("zero").call = "exit" /\ Exit("zero").value = "zero"
  BY DEF Exit
<1>2. PlainOK(pr, p, Exit("zero"))
  BY <1>1 DEF PlainOK, Says
<1>3. FailureOK(pr, p, <<Exit("zero")>>) /\ \A e \in Range(<<Exit("zero")>>) : ~Says(e)
  BY <1>2, ReturnFails
<1> QED BY <1>3 DEF Return

LEMMA ExitOneOK ==
  /\ FailureOK("fork_text", "parent", <<Exit("one")>>)
  /\ \A e \in Range(<<Exit("one")>>) : ~Says(e)
<1>1. Exit("one").call = "exit" /\ Exit("one").value = "one"
  BY DEF Exit
<1>2. PlainOK("fork_text", "parent", Exit("one"))
  BY <1>1 DEF PlainOK, Says
<1> QED BY <1>2, ReturnFails

\* How partA_fork.c goes on when its fork fails.
Errors == <<Say("After fork"), SayOpen("Error")>> \o Return

LEMMA ErrorsFails ==
  /\ FailureOK("partA_fork", "parent", Errors)
  /\ \A e \in Range(Errors) : Says(e) => e.text \in {"After fork", "Error"}
<1> DEFINE a == Say("After fork")
           b == SayOpen("Error")
           q == <<Exit("zero")>>
<1>a. a.call = "printf" /\ a.text = "After fork"
  BY DEF Say
<1>b. b.call = "printf" /\ b.text = "Error"
  BY DEF SayOpen
<1>c. Exit("zero").call = "exit" /\ Exit("zero").value = "zero"
  BY DEF Exit
<1>1. Errors = Front2(a, b, q)
  BY DEF Errors, Return, Front2
<1>2. PlainOK("partA_fork", "parent", Exit("zero"))
  BY <1>c DEF PlainOK, Says
<1>3. FailureOK("partA_fork", "parent", q) /\ \A e \in Range(q) : ~Says(e)
  BY <1>2, ReturnFails
<1>4. Range(q) = {Exit("zero")} /\ \A e \in Range(q) : e.call # "write1"
  <2>1. Range(q) = {Exit("zero")}
    BY <1>2, ScriptExit
  <2> QED BY <2>1, <1>c
<1>5. Front2(a, b, q) = Chain2(a, b, q)
  <2> DEFINE S == {a, b, Exit("zero")}
  <2>1. a \in S /\ b \in S /\ q \in Seq(S)
    OBVIOUS
  <2> HIDE DEF S, a, b, q
  <2> QED BY <2>1, Unfold2
<1> HIDE DEF a, b, q
<1>5a. PlainOK("partA_fork", "parent", a) /\ a.text # ExitCode
  BY <1>a DEF PlainOK, Says, Texts, ExitCode, Global
<1>6. PlainOK("partA_fork", "parent", b) /\ b.text # ExitCode
  BY <1>b DEF PlainOK, Says, Texts, ExitCode, Global
<1> DEFINE r == <<b>> \o q
<1>7. FailureOK("partA_fork", "parent", r) /\ Range(r) = {b} \cup Range(q)
  <2>1. \A d \in Range(q) : ~SameLine(b, d)
    BY <1>3, <1>4 DEF SameLine
  <2> QED BY <1>3, <1>6, <1>b, <2>1, FailureCons
<1> HIDE DEF r
<1>8. FailureOK("partA_fork", "parent", <<a>> \o r) /\ Range(<<a>> \o r) = {a} \cup Range(r)
  <2>1. \A d \in Range(r) : ~SameLine(a, d)
    <3>1. \A d \in Range(r) : d = b \/ d = Exit("zero")
      BY <1>4, <1>7
    <3> QED BY <3>1, <1>a, <1>b, <1>c DEF SameLine, Says
  <2>2. FailureOK("partA_fork", "parent", r) /\ a.call = "printf"
    BY <1>7, <1>a
  <2> QED BY <2>2, <1>5a, <2>1, FailureCons
<1>9. Errors = <<a>> \o r
  BY <1>1, <1>5 DEF Chain2, r
<1> QED BY <1>3, <1>7, <1>8, <1>9, <1>a, <1>b

LEMMA PartAParent ==
  /\ Script("partA", "parent", partA.parent) /\ partA.parent # <<>>
  /\ Has(partA.parent, "fork")
  /\ Has(partA.parent, "wait")
<1> DEFINE a == Say("Begin")
           b == Fork("child", ForkFailed)
           c == Wait
           d == Say("In Parent process")
           e == Exit("zero")
           q5 == <<e>>
           q4 == <<d>> \o q5
           q3 == <<c>> \o q4
           q2 == <<b>> \o q3
           q1 == <<a>> \o q2
<1>a. a.call = "printf" /\ a.text = "Begin" /\ a.newline = TRUE
  BY DEF Say
<1>b. b.call = "fork" /\ b.who = "child" /\ b.failure = ForkFailed
  BY DEF Fork
<1>c. c.call = "wait"
  BY DEF Wait
<1>d. d.call = "printf" /\ d.text = "In Parent process" /\ d.newline = TRUE
  BY DEF Say
<1>e. e.call = "exit" /\ e.value = "zero"
  BY DEF Exit
<1>1. partA.parent = q1
  <2> DEFINE S == {a, b, c, d, e}
  <2>1. partA.parent = <<a, b, c, d>> \o q5
    BY DEF partA, Return
  <2>2. q5 \in Seq(S) /\ a \in S /\ b \in S /\ c \in S /\ d \in S
    OBVIOUS
  <2>3. <<a, b, c, d>> \o q5 = q1
    <3>1. Front4(a, b, c, d, q5) = Chain4(a, b, c, d, q5)
      <4> HIDE DEF S, q5, a, b, c, d, e
      <4> QED BY <2>2, Unfold4
    <3> QED BY <3>1 DEF Front4, Chain2, Chain3, Chain4
  <2> QED BY <2>1, <2>3
<1>2. Script("partA", "parent", q5) /\ q5 # <<>> /\ Range(q5) = {e}
  <2>1. PlainOK("partA", "parent", e)
    BY <1>e DEF PlainOK, Says
  <2> QED BY <2>1, ScriptExit
<1> HIDE DEF a, b, c, d, e
<1>3. Script("partA", "parent", q4) /\ q4 # <<>> /\ Range(q4) = {d, e}
  <2> HIDE DEF q5
  <2>1. CallOK("partA", "parent", d)
    BY <1>d DEF CallOK, PlainOK, Names, Says, Texts, ExitCode, Global
  <2>2. \A y \in Range(q5) : MayPrecede("partA", "parent", d, y)
    BY <1>2, <1>d, <1>e DEF MayPrecede, Says, SameLine, Free, Ordered
  <2>3. Script("partA", "parent", q5) /\ q5 # <<>>
    BY <1>2
  <2>4. d.call \notin {"read", "write", "pipe", "fork"}
    BY <1>d
  <2>5. Fits("partA", "parent", d, q5)
    BY <2>1, <2>2, <2>3, <2>4 DEF Fits
  <2>6. /\ Script("partA", "parent", <<d>> \o q5) /\ <<d>> \o q5 # <<>>
        /\ Range(<<d>> \o q5) = {d} \cup Range(q5)
    BY <2>5, FitsScript
  <2> QED BY <2>6, <1>2
<1>4. Script("partA", "parent", q3) /\ q3 # <<>> /\ Range(q3) = {c, d, e}
  <2> HIDE DEF q4
  <2>1. CallOK("partA", "parent", c)
    BY <1>c DEF CallOK, PlainOK, Names, Says
  <2>2. \A y \in Range(q4) : MayPrecede("partA", "parent", c, y)
    BY <1>3, <1>c, <1>d, <1>e DEF MayPrecede, Says, SameLine
  <2>3. Script("partA", "parent", q4) /\ q4 # <<>>
    BY <1>3
  <2>4. c.call \notin {"read", "write", "pipe", "fork"}
    BY <1>c
  <2>5. Fits("partA", "parent", c, q4)
    BY <2>1, <2>2, <2>3, <2>4 DEF Fits
  <2>6. /\ Script("partA", "parent", <<c>> \o q4) /\ <<c>> \o q4 # <<>>
        /\ Range(<<c>> \o q4) = {c} \cup Range(q4)
    BY <2>5, FitsScript
  <2> QED BY <2>6, <1>3
<1>5. Script("partA", "parent", q2) /\ q2 # <<>> /\ Range(q2) = {b, c, d, e}
  <2> HIDE DEF q3
  <2>1. CallOK("partA", "parent", b)
    <3>1. FailureOK("partA", "parent", b.failure)
      BY <1>b, ForkFailedFails
    <3> QED BY <1>b, <3>1, ParentFacts DEF CallOK, PlainOK, Names, Says
  <2>2. \A y \in Range(q3) : MayPrecede("partA", "parent", b, y)
    BY <1>4, <1>b, <1>c, <1>d, <1>e DEF MayPrecede, Says, SameLine
  <2>3. Has(q3, "wait")
    BY <1>4, <1>c DEF Has
  <2>4. Script("partA", "parent", q3) /\ q3 # <<>>
    BY <1>4
  <2>5. b.call = "fork"
    BY <1>b
  <2>6. Fits("partA", "parent", b, q3)
    BY <2>1, <2>2, <2>3, <2>4, <2>5 DEF Fits
  <2>7. /\ Script("partA", "parent", <<b>> \o q3) /\ <<b>> \o q3 # <<>>
        /\ Range(<<b>> \o q3) = {b} \cup Range(q3)
    BY <2>6, FitsScript
  <2> QED BY <2>7, <1>4
<1>6. Script("partA", "parent", q1) /\ q1 # <<>> /\ Range(q1) = {a, b, c, d, e}
  <2> HIDE DEF q2
  <2>1. CallOK("partA", "parent", a)
    BY <1>a DEF CallOK, PlainOK, Names, Says, Texts, ExitCode, Global
  <2>2. \A y \in Range(q2) : MayPrecede("partA", "parent", a, y)
    BY <1>5, <1>a, <1>b, <1>c, <1>d, <1>e, ForkFailedFails DEF MayPrecede, Says, SameLine,
       Free, Ordered
  <2>3. Script("partA", "parent", q2) /\ q2 # <<>>
    BY <1>5
  <2>4. a.call \notin {"read", "write", "pipe", "fork"}
    BY <1>a
  <2>5. Fits("partA", "parent", a, q2)
    BY <2>1, <2>2, <2>3, <2>4 DEF Fits
  <2>6. /\ Script("partA", "parent", <<a>> \o q2) /\ <<a>> \o q2 # <<>>
        /\ Range(<<a>> \o q2) = {a} \cup Range(q2)
    BY <2>5, FitsScript
  <2> QED BY <2>6, <1>5
<1>7. Has(q1, "fork") /\ Has(q1, "wait")
  BY <1>6, <1>b, <1>c DEF Has
<1> HIDE DEF q1
<1> QED BY <1>1, <1>6, <1>7

LEMMA PartAChild ==
  /\ Script("partA", "child", partA.child) /\ partA.child # <<>>
  /\ Has(partA.child, "fork")
  /\ Has(partA.child, "wait")
<1> DEFINE a == Fork("grandchild", Return)
           b == Wait
           c == Say("In Child process")
           d == Exit("zero")
           q4 == <<d>>
           q3 == <<c>> \o q4
           q2 == <<b>> \o q3
           q1 == <<a>> \o q2
<1>a. a.call = "fork" /\ a.who = "grandchild" /\ a.failure = Return
  BY DEF Fork
<1>b. b.call = "wait"
  BY DEF Wait
<1>c. c.call = "printf" /\ c.text = "In Child process" /\ c.newline = TRUE
  BY DEF Say
<1>d. d.call = "exit" /\ d.value = "zero"
  BY DEF Exit
<1>1. partA.child = q1
  <2> DEFINE S == {a, b, c, d}
  <2>1. partA.child = <<a, b, c>> \o q4
    BY DEF partA, Return
  <2>2. q4 \in Seq(S) /\ a \in S /\ b \in S /\ c \in S
    OBVIOUS
  <2>3. <<a, b, c>> \o q4 = q1
    <3>1. Front3(a, b, c, q4) = Chain3(a, b, c, q4)
      <4> HIDE DEF S, q4, a, b, c, d
      <4> QED BY <2>2, Unfold3
    <3> QED BY <3>1 DEF Front3, Chain2, Chain3
  <2> QED BY <2>1, <2>3
<1>2. Script("partA", "child", q4) /\ q4 # <<>> /\ Range(q4) = {d}
  <2>1. PlainOK("partA", "child", d)
    BY <1>d DEF PlainOK, Says
  <2> QED BY <2>1, ScriptExit
<1> HIDE DEF a, b, c, d
<1>3. Script("partA", "child", q3) /\ q3 # <<>> /\ Range(q3) = {c, d}
  <2> HIDE DEF q4
  <2>1. CallOK("partA", "child", c)
    BY <1>c DEF CallOK, PlainOK, Names, Says, Texts, ExitCode, Global
  <2>2. \A y \in Range(q4) : MayPrecede("partA", "child", c, y)
    BY <1>2, <1>c, <1>d DEF MayPrecede, Says, SameLine, Free, Ordered
  <2>3. Script("partA", "child", q4) /\ q4 # <<>>
    BY <1>2
  <2>4. c.call \notin {"read", "write", "pipe", "fork"}
    BY <1>c
  <2>5. Fits("partA", "child", c, q4)
    BY <2>1, <2>2, <2>3, <2>4 DEF Fits
  <2>6. /\ Script("partA", "child", <<c>> \o q4) /\ <<c>> \o q4 # <<>>
        /\ Range(<<c>> \o q4) = {c} \cup Range(q4)
    BY <2>5, FitsScript
  <2> QED BY <2>6, <1>2
<1>4. Script("partA", "child", q2) /\ q2 # <<>> /\ Range(q2) = {b, c, d}
  <2> HIDE DEF q3
  <2>1. CallOK("partA", "child", b)
    BY <1>b DEF CallOK, PlainOK, Names, Says
  <2>2. \A y \in Range(q3) : MayPrecede("partA", "child", b, y)
    BY <1>3, <1>b, <1>c, <1>d DEF MayPrecede, Says, SameLine
  <2>3. Script("partA", "child", q3) /\ q3 # <<>>
    BY <1>3
  <2>4. b.call \notin {"read", "write", "pipe", "fork"}
    BY <1>b
  <2>5. Fits("partA", "child", b, q3)
    BY <2>1, <2>2, <2>3, <2>4 DEF Fits
  <2>6. /\ Script("partA", "child", <<b>> \o q3) /\ <<b>> \o q3 # <<>>
        /\ Range(<<b>> \o q3) = {b} \cup Range(q3)
    BY <2>5, FitsScript
  <2> QED BY <2>6, <1>3
<1>5. Script("partA", "child", q1) /\ q1 # <<>> /\ Range(q1) = {a, b, c, d}
  <2> HIDE DEF q2
  <2>1. CallOK("partA", "child", a)
    <3>1. FailureOK("partA", "child", a.failure)
      BY <1>a, ReturnOK
    <3> QED BY <1>a, <3>1, ParentFacts DEF CallOK, PlainOK, Names, Says
  <2>2. \A y \in Range(q2) : MayPrecede("partA", "child", a, y)
    BY <1>4, <1>a, <1>b, <1>c, <1>d DEF MayPrecede, Says, SameLine
  <2>3. Has(q2, "wait")
    BY <1>4, <1>b DEF Has
  <2>4. Script("partA", "child", q2) /\ q2 # <<>>
    BY <1>4
  <2>5. a.call = "fork"
    BY <1>a
  <2>6. Fits("partA", "child", a, q2)
    BY <2>1, <2>2, <2>3, <2>4, <2>5 DEF Fits
  <2>7. /\ Script("partA", "child", <<a>> \o q2) /\ <<a>> \o q2 # <<>>
        /\ Range(<<a>> \o q2) = {a} \cup Range(q2)
    BY <2>6, FitsScript
  <2> QED BY <2>7, <1>4
<1>6. Has(q1, "fork") /\ Has(q1, "wait")
  BY <1>5, <1>a, <1>b DEF Has
<1> HIDE DEF q1
<1> QED BY <1>1, <1>5, <1>6

LEMMA PartAGrandchild ==
  /\ Script("partA", "grandchild", partA.grandchild) /\ partA.grandchild # <<>>
<1> DEFINE a == Say("In GrandChild process")
           b == Exit("zero")
           q2 == <<b>>
           q1 == <<a>> \o q2
<1>a. a.call = "printf" /\ a.text = "In GrandChild process" /\ a.newline = TRUE
  BY DEF Say
<1>b. b.call = "exit" /\ b.value = "zero"
  BY DEF Exit
<1>1. partA.grandchild = q1
  BY DEF partA, Return
<1>2. Script("partA", "grandchild", q2) /\ q2 # <<>> /\ Range(q2) = {b}
  <2>1. PlainOK("partA", "grandchild", b)
    BY <1>b DEF PlainOK, Says
  <2> QED BY <2>1, ScriptExit
<1> HIDE DEF a, b
<1>3. Script("partA", "grandchild", q1) /\ q1 # <<>> /\ Range(q1) = {a, b}
  <2> HIDE DEF q2
  <2>1. CallOK("partA", "grandchild", a)
    BY <1>a DEF CallOK, PlainOK, Names, Says, Texts, ExitCode, Global
  <2>2. \A y \in Range(q2) : MayPrecede("partA", "grandchild", a, y)
    BY <1>2, <1>a, <1>b DEF MayPrecede, Says, SameLine, Free, Ordered
  <2>3. Script("partA", "grandchild", q2) /\ q2 # <<>>
    BY <1>2
  <2>4. a.call \notin {"read", "write", "pipe", "fork"}
    BY <1>a
  <2>5. Fits("partA", "grandchild", a, q2)
    BY <2>1, <2>2, <2>3, <2>4 DEF Fits
  <2>6. /\ Script("partA", "grandchild", <<a>> \o q2) /\ <<a>> \o q2 # <<>>
        /\ Range(<<a>> \o q2) = {a} \cup Range(q2)
    BY <2>5, FitsScript
  <2> QED BY <2>6, <1>2
<1> HIDE DEF q1
<1> QED BY <1>1, <1>3

LEMMA PartBParent ==
  /\ Script("partB", "parent", partB.parent) /\ partB.parent # <<>>
  /\ Has(partB.parent, "fork")
  /\ Has(partB.parent, "wait")
  /\ Has(partB.parent, "read")
  /\ Has(partB.parent, "write")
  /\ Has(partB.parent, "pipe")
<1> DEFINE a == Say("Begin")
           b == MakePipes
           c == Fork("child", ForkFailed)
           d == Close("pc", "r")
           e == Write("pc", <<"from parent", "\n">>)
           f == Close("pc", "w")
           g == Wait
           h == Say("In Parent process")
           i == SayOpen("Message from grandchild")
           j == Close("gp", "w")
           k == Read("gp")
           l == Say("message")
           m == Close("gp", "r")
           n == Say("End")
           o == Exit("zero")
           q15 == <<o>>
           q14 == <<n>> \o q15
           q13 == <<m>> \o q14
           q12 == <<l>> \o q13
           q11 == <<k>> \o q12
           q10 == <<j>> \o q11
           q9 == <<i>> \o q10
           q8 == <<h>> \o q9
           q7 == <<g>> \o q8
           q6 == <<f>> \o q7
           q5 == <<e>> \o q6
           q4 == <<d>> \o q5
           q3 == <<c>> \o q4
           q2 == <<b>> \o q3
           q1 == <<a>> \o q2
<1>a. a.call = "printf" /\ a.text = "Begin" /\ a.newline = TRUE
  BY DEF Say
<1>b. b.call = "pipe"
  BY DEF MakePipes
<1>c. c.call = "fork" /\ c.who = "child" /\ c.failure = ForkFailed
  BY DEF Fork
<1>d. d.call = "close"
  BY DEF Close
<1>end_d. d.end = <<"pc", "r">>
  BY DEF Close
<1>e. e.call = "write" /\ e.pipe = "pc"
  BY DEF Write
<1>items_e. e.items = <<"from parent", "\n">>
  BY DEF Write
<1>f. f.call = "close"
  BY DEF Close
<1>end_f. f.end = <<"pc", "w">>
  BY DEF Close
<1>g. g.call = "wait"
  BY DEF Wait
<1>h. h.call = "printf" /\ h.text = "In Parent process" /\ h.newline = TRUE
  BY DEF Say
<1>i. i.call = "printf" /\ i.text = "Message from grandchild" /\ i.newline = FALSE
  BY DEF SayOpen
<1>j. j.call = "close"
  BY DEF Close
<1>end_j. j.end = <<"gp", "w">>
  BY DEF Close
<1>k. k.call = "read" /\ k.pipe = "gp"
  BY DEF Read
<1>l. l.call = "printf" /\ l.text = "message" /\ l.newline = TRUE
  BY DEF Say
<1>m. m.call = "close"
  BY DEF Close
<1>end_m. m.end = <<"gp", "r">>
  BY DEF Close
<1>n. n.call = "printf" /\ n.text = "End" /\ n.newline = TRUE
  BY DEF Say
<1>o. o.call = "exit" /\ o.value = "zero"
  BY DEF Exit
<1>1. partB.parent = q1
  <2> DEFINE S == {a, b, c, d, e, f, g, h, i, j, k, l, m, n, o}
             t1 == <<a, b, c, d>>
             t2 == <<e, f>>
             t3 == <<g, h, i, j>>
             t4 == <<k, l, m>>
             t5 == <<n>>
             t6 == <<o>>
  <2>1. partB.parent = Left6(t1, t2, t3, t4, t5, t6)
    BY DEF partB, write_to_pipe, read_from_pipe, Return, Left5, Left6, Join
  <2>2. /\ t1 \in Seq(S) /\ t2 \in Seq(S) /\ t3 \in Seq(S) /\ t4 \in Seq(S)
           /\ t5 \in Seq(S) /\ t6 \in Seq(S)
        /\ a \in S /\ b \in S /\ c \in S /\ d \in S /\ e \in S /\ f \in S /\ g \in S
           /\ h \in S /\ i \in S /\ j \in S /\ k \in S /\ l \in S /\ m \in S /\ n \in S
           /\ o \in S
    OBVIOUS
  <2>3. q15 \in Seq(S)
    OBVIOUS
  <2> HIDE DEF S, a, b, c, d, e, f, g, h, i, j, k, l, m, n, o
  <2>4. q14 \in Seq(S)
    <3> HIDE DEF q15
    <3> QED BY <2>2, <2>3
  <2>5. q13 \in Seq(S)
    <3> HIDE DEF q14
    <3> QED BY <2>2, <2>4
  <2>6. q12 \in Seq(S)
    <3> HIDE DEF q13
    <3> QED BY <2>2, <2>5
  <2>7. q11 \in Seq(S)
    <3> HIDE DEF q12
    <3> QED BY <2>2, <2>6
  <2>8. q10 \in Seq(S)
    <3> HIDE DEF q11
    <3> QED BY <2>2, <2>7
  <2>9. q9 \in Seq(S)
    <3> HIDE DEF q10
    <3> QED BY <2>2, <2>8
  <2>10. q8 \in Seq(S)
    <3> HIDE DEF q9
    <3> QED BY <2>2, <2>9
  <2>11. q7 \in Seq(S)
    <3> HIDE DEF q8
    <3> QED BY <2>2, <2>10
  <2>12. q6 \in Seq(S)
    <3> HIDE DEF q7
    <3> QED BY <2>2, <2>11
  <2>13. q5 \in Seq(S)
    <3> HIDE DEF q6
    <3> QED BY <2>2, <2>12
  <2>14. q4 \in Seq(S)
    <3> HIDE DEF q5
    <3> QED BY <2>2, <2>13
  <2>15. q3 \in Seq(S)
    <3> HIDE DEF q4
    <3> QED BY <2>2, <2>14
  <2>16. q2 \in Seq(S)
    <3> HIDE DEF q3
    <3> QED BY <2>2, <2>15
  <2>17. q1 \in Seq(S)
    <3> HIDE DEF q2
    <3> QED BY <2>2, <2>16
  <2>18. t5 \o q15 = q14
    OBVIOUS
  <2>19. t4 \o q14 = q11
    <3>1. Front3(k, l, m, q14) = Chain3(k, l, m, q14)
      <4> HIDE DEF q14
      <4> QED BY <2>2, <2>4, Unfold3
    <3> QED BY <3>1 DEF Front3, Chain2, Chain3
  <2>20. t3 \o q11 = q7
    <3>1. Front4(g, h, i, j, q11) = Chain4(g, h, i, j, q11)
      <4>1. g \in S /\ h \in S /\ i \in S /\ j \in S
        BY <2>2
      <4> HIDE DEF q11
      <4> QED BY <4>1, <2>7, Unfold4
    <3> QED BY <3>1 DEF Front4, Chain2, Chain3, Chain4
  <2>21. t2 \o q7 = q5
    <3>1. Front2(e, f, q7) = Chain2(e, f, q7)
      <4> HIDE DEF q7
      <4> QED BY <2>2, <2>11, Unfold2
    <3> QED BY <3>1 DEF Front2, Chain2
  <2>22. t1 \o q5 = q1
    <3>1. Front4(a, b, c, d, q5) = Chain4(a, b, c, d, q5)
      <4>1. a \in S /\ b \in S /\ c \in S /\ d \in S
        BY <2>2
      <4> HIDE DEF q5
      <4> QED BY <4>1, <2>13, Unfold4
    <3> QED BY <3>1 DEF Front4, Chain2, Chain3, Chain4
  <2>23. Right6(t1, t2, t3, t4, t5, t6) = q1
    <3>1. q15 = t6
      OBVIOUS
    <3> HIDE DEF t1, t2, t3, t4, t5, t6, q1, q2, q3, q4, q5, q6, q7, q8, q9, q10, q11, q12,
        q13, q14, q15
    <3> QED BY <3>1, <2>18, <2>19, <2>20, <2>21, <2>22 DEF Right5, Right6, Join
  <2> HIDE DEF t1, t2, t3, t4, t5, t6, q1, q2, q3, q4, q5, q6, q7, q8, q9, q10, q11, q12,
      q13, q14, q15
  <2>24. Left6(t1, t2, t3, t4, t5, t6) = Right6(t1, t2, t3, t4, t5, t6)
    BY <2>2, Regroup6
  <2> QED BY <2>1, <2>23, <2>24
<1>2. Script("partB", "parent", q15) /\ q15 # <<>> /\ Range(q15) = {o}
  <2>1. PlainOK("partB", "parent", o)
    BY <1>o DEF PlainOK, Says
  <2> QED BY <2>1, ScriptExit
<1> HIDE DEF a, b, c, d, e, f, g, h, i, j, k, l, m, n, o
<1>3. Script("partB", "parent", q14) /\ q14 # <<>> /\ Range(q14) = {n, o}
  <2> HIDE DEF q15
  <2>1. CallOK("partB", "parent", n)
    BY <1>n DEF CallOK, PlainOK, Names, Says, Texts, ExitCode, Global
  <2>2. \A y \in Range(q15) : MayPrecede("partB", "parent", n, y)
    BY <1>2, <1>n, <1>o DEF MayPrecede, Says, SameLine, Free, Ordered
  <2>3. Script("partB", "parent", q15) /\ q15 # <<>>
    BY <1>2
  <2>4. n.call \notin {"read", "write", "pipe", "fork"}
    BY <1>n
  <2>5. Fits("partB", "parent", n, q15)
    BY <2>1, <2>2, <2>3, <2>4 DEF Fits
  <2>6. /\ Script("partB", "parent", <<n>> \o q15) /\ <<n>> \o q15 # <<>>
        /\ Range(<<n>> \o q15) = {n} \cup Range(q15)
    BY <2>5, FitsScript
  <2> QED BY <2>6, <1>2
<1>4. Script("partB", "parent", q13) /\ q13 # <<>> /\ Range(q13) = {m, n, o}
  <2> HIDE DEF q14
  <2>1. CallOK("partB", "parent", m)
    BY <1>m, <1>end_m DEF CallOK, PlainOK, Names, Says, Ends, Pipes
  <2>2. \A y \in Range(q14) : MayPrecede("partB", "parent", m, y)
    BY <1>3, <1>m, <1>n, <1>o DEF MayPrecede, Says, SameLine
  <2>3. Script("partB", "parent", q14) /\ q14 # <<>>
    BY <1>3
  <2>4. m.call \notin {"read", "write", "pipe", "fork"}
    BY <1>m
  <2>5. Fits("partB", "parent", m, q14)
    BY <2>1, <2>2, <2>3, <2>4 DEF Fits
  <2>6. /\ Script("partB", "parent", <<m>> \o q14) /\ <<m>> \o q14 # <<>>
        /\ Range(<<m>> \o q14) = {m} \cup Range(q14)
    BY <2>5, FitsScript
  <2> QED BY <2>6, <1>3
<1>5. Script("partB", "parent", q12) /\ q12 # <<>> /\ Range(q12) = {l, m, n, o}
  <2> HIDE DEF q13
  <2>1. CallOK("partB", "parent", l)
    BY <1>l DEF CallOK, PlainOK, Names, Says, Texts, ExitCode, Global
  <2>2. \A y \in Range(q13) : MayPrecede("partB", "parent", l, y)
    BY <1>4, <1>l, <1>m, <1>n, <1>o DEF MayPrecede, Says, SameLine, Free, Ordered
  <2>3. Script("partB", "parent", q13) /\ q13 # <<>>
    BY <1>4
  <2>4. l.call \notin {"read", "write", "pipe", "fork"}
    BY <1>l
  <2>5. Fits("partB", "parent", l, q13)
    BY <2>1, <2>2, <2>3, <2>4 DEF Fits
  <2>6. /\ Script("partB", "parent", <<l>> \o q13) /\ <<l>> \o q13 # <<>>
        /\ Range(<<l>> \o q13) = {l} \cup Range(q13)
    BY <2>5, FitsScript
  <2> QED BY <2>6, <1>4
<1>6. Script("partB", "parent", q11) /\ q11 # <<>> /\ Range(q11) = {k, l, m, n, o}
  <2> HIDE DEF q12
  <2>1. CallOK("partB", "parent", k)
    BY <1>k DEF CallOK, PlainOK, Names, Says, In
  <2>2. \A y \in Range(q12) : MayPrecede("partB", "parent", k, y)
    BY <1>5, <1>k, <1>l, <1>m, <1>n, <1>o DEF MayPrecede, Says, SameLine
  <2>3. Closes(q12, k.pipe, "r")
    BY <1>5, <1>k, <1>m, <1>end_m DEF Closes
  <2>4. Script("partB", "parent", q12) /\ q12 # <<>>
    BY <1>5
  <2>5. k.call = "read"
    BY <1>k
  <2>6. Fits("partB", "parent", k, q12)
    BY <2>1, <2>2, <2>3, <2>4, <2>5 DEF Fits
  <2>7. /\ Script("partB", "parent", <<k>> \o q12) /\ <<k>> \o q12 # <<>>
        /\ Range(<<k>> \o q12) = {k} \cup Range(q12)
    BY <2>6, FitsScript
  <2> QED BY <2>7, <1>5
<1>7. Script("partB", "parent", q10) /\ q10 # <<>> /\ Range(q10) = {j, k, l, m, n, o}
  <2> HIDE DEF q11
  <2>1. CallOK("partB", "parent", j)
    BY <1>j, <1>end_j DEF CallOK, PlainOK, Names, Says, Ends, Pipes
  <2>2. \A y \in Range(q11) : MayPrecede("partB", "parent", j, y)
    <3>1. j.end # <<k.pipe, "r">>
      BY <1>end_j, <1>k
    <3>2. j.end # m.end
      BY <1>end_j, <1>end_m
    <3> QED BY <3>1, <3>2, <1>6, <1>j, <1>k, <1>l, <1>m, <1>n, <1>o DEF MayPrecede, Says,
        SameLine
  <2>3. Script("partB", "parent", q11) /\ q11 # <<>>
    BY <1>6
  <2>4. j.call \notin {"read", "write", "pipe", "fork"}
    BY <1>j
  <2>5. Fits("partB", "parent", j, q11)
    BY <2>1, <2>2, <2>3, <2>4 DEF Fits
  <2>6. /\ Script("partB", "parent", <<j>> \o q11) /\ <<j>> \o q11 # <<>>
        /\ Range(<<j>> \o q11) = {j} \cup Range(q11)
    BY <2>5, FitsScript
  <2> QED BY <2>6, <1>6
<1>8. Script("partB", "parent", q9) /\ q9 # <<>> /\ Range(q9) = {i, j, k, l, m, n, o}
  <2> HIDE DEF q10
  <2>1. CallOK("partB", "parent", i)
    BY <1>i DEF CallOK, PlainOK, Names, Says, Texts, ExitCode, Global
  <2>2. \A y \in Range(q10) : MayPrecede("partB", "parent", i, y)
    BY <1>7, <1>i, <1>j, <1>k, <1>l, <1>m, <1>n, <1>o DEF MayPrecede, Says, SameLine, Free,
       Ordered
  <2>3. Script("partB", "parent", q10) /\ q10 # <<>>
    BY <1>7
  <2>4. i.call \notin {"read", "write", "pipe", "fork"}
    BY <1>i
  <2>5. Fits("partB", "parent", i, q10)
    BY <2>1, <2>2, <2>3, <2>4 DEF Fits
  <2>6. /\ Script("partB", "parent", <<i>> \o q10) /\ <<i>> \o q10 # <<>>
        /\ Range(<<i>> \o q10) = {i} \cup Range(q10)
    BY <2>5, FitsScript
  <2> QED BY <2>6, <1>7
<1>9. Script("partB", "parent", q8) /\ q8 # <<>> /\ Range(q8) = {h, i, j, k, l, m, n, o}
  <2> HIDE DEF q9
  <2>1. CallOK("partB", "parent", h)
    BY <1>h DEF CallOK, PlainOK, Names, Says, Texts, ExitCode, Global
  <2>2. \A y \in Range(q9) : MayPrecede("partB", "parent", h, y)
    BY <1>8, <1>h, <1>i, <1>j, <1>k, <1>l, <1>m, <1>n, <1>o DEF MayPrecede, Says, SameLine,
       Free, Ordered
  <2>3. Script("partB", "parent", q9) /\ q9 # <<>>
    BY <1>8
  <2>4. h.call \notin {"read", "write", "pipe", "fork"}
    BY <1>h
  <2>5. Fits("partB", "parent", h, q9)
    BY <2>1, <2>2, <2>3, <2>4 DEF Fits
  <2>6. /\ Script("partB", "parent", <<h>> \o q9) /\ <<h>> \o q9 # <<>>
        /\ Range(<<h>> \o q9) = {h} \cup Range(q9)
    BY <2>5, FitsScript
  <2> QED BY <2>6, <1>8
<1>10. Script("partB", "parent", q7) /\ q7 # <<>> /\ Range(q7) = {g, h, i, j, k, l, m, n, o}
  <2> HIDE DEF q8
  <2>1. CallOK("partB", "parent", g)
    BY <1>g DEF CallOK, PlainOK, Names, Says
  <2>2. \A y \in Range(q8) : MayPrecede("partB", "parent", g, y)
    BY <1>9, <1>g, <1>h, <1>i, <1>j, <1>k, <1>l, <1>m, <1>n, <1>o DEF MayPrecede, Says,
       SameLine
  <2>3. Script("partB", "parent", q8) /\ q8 # <<>>
    BY <1>9
  <2>4. g.call \notin {"read", "write", "pipe", "fork"}
    BY <1>g
  <2>5. Fits("partB", "parent", g, q8)
    BY <2>1, <2>2, <2>3, <2>4 DEF Fits
  <2>6. /\ Script("partB", "parent", <<g>> \o q8) /\ <<g>> \o q8 # <<>>
        /\ Range(<<g>> \o q8) = {g} \cup Range(q8)
    BY <2>5, FitsScript
  <2> QED BY <2>6, <1>9
<1>11. Script("partB", "parent", q6) /\ q6 # <<>>
       /\ Range(q6) = {f, g, h, i, j, k, l, m, n, o}
  <2> HIDE DEF q7
  <2>1. CallOK("partB", "parent", f)
    BY <1>f, <1>end_f DEF CallOK, PlainOK, Names, Says, Ends, Pipes
  <2>2. \A y \in Range(q7) : MayPrecede("partB", "parent", f, y)
    <3>1. f.end # j.end
      BY <1>end_f, <1>end_j
    <3>2. f.end # <<k.pipe, "r">>
      BY <1>end_f, <1>k
    <3>3. f.end # m.end
      BY <1>end_f, <1>end_m
    <3> QED BY <3>1, <3>2, <3>3, <1>10, <1>f, <1>g, <1>h, <1>i, <1>j, <1>k, <1>l, <1>m,
        <1>n, <1>o DEF MayPrecede, Says, SameLine
  <2>3. Script("partB", "parent", q7) /\ q7 # <<>>
    BY <1>10
  <2>4. f.call \notin {"read", "write", "pipe", "fork"}
    BY <1>f
  <2>5. Fits("partB", "parent", f, q7)
    BY <2>1, <2>2, <2>3, <2>4 DEF Fits
  <2>6. /\ Script("partB", "parent", <<f>> \o q7) /\ <<f>> \o q7 # <<>>
        /\ Range(<<f>> \o q7) = {f} \cup Range(q7)
    BY <2>5, FitsScript
  <2> QED BY <2>6, <1>10
<1>12. Script("partB", "parent", q5) /\ q5 # <<>>
       /\ Range(q5) = {e, f, g, h, i, j, k, l, m, n, o}
  <2> HIDE DEF q6
  <2>1. CallOK("partB", "parent", e)
    BY <1>e, <1>items_e DEF CallOK, PlainOK, Names, Says, Out, Sent
  <2>2. \A y \in Range(q6) : MayPrecede("partB", "parent", e, y)
    BY <1>11, <1>e, <1>f, <1>g, <1>h, <1>i, <1>j, <1>k, <1>l, <1>m, <1>n, <1>o
       DEF MayPrecede, Says, SameLine
  <2>3. Closes(q6, e.pipe, "w")
    BY <1>11, <1>e, <1>f, <1>end_f DEF Closes
  <2>4. Script("partB", "parent", q6) /\ q6 # <<>>
    BY <1>11
  <2>5. e.call = "write"
    BY <1>e
  <2>6. Fits("partB", "parent", e, q6)
    BY <2>1, <2>2, <2>3, <2>4, <2>5 DEF Fits
  <2>7. /\ Script("partB", "parent", <<e>> \o q6) /\ <<e>> \o q6 # <<>>
        /\ Range(<<e>> \o q6) = {e} \cup Range(q6)
    BY <2>6, FitsScript
  <2> QED BY <2>7, <1>11
<1>13. Script("partB", "parent", q4) /\ q4 # <<>>
       /\ Range(q4) = {d, e, f, g, h, i, j, k, l, m, n, o}
  <2> HIDE DEF q5
  <2>1. CallOK("partB", "parent", d)
    BY <1>d, <1>end_d DEF CallOK, PlainOK, Names, Says, Ends, Pipes
  <2>2. \A y \in Range(q5) : MayPrecede("partB", "parent", d, y)
    <3>1. d.end # <<e.pipe, "w">>
      BY <1>end_d, <1>e
    <3>2. d.end # f.end
      BY <1>end_d, <1>end_f
    <3>3. d.end # j.end
      BY <1>end_d, <1>end_j
    <3>4. d.end # <<k.pipe, "r">>
      BY <1>end_d, <1>k
    <3>5. d.end # m.end
      BY <1>end_d, <1>end_m
    <3> QED BY <3>1, <3>2, <3>3, <3>4, <3>5, <1>12, <1>d, <1>e, <1>f, <1>g, <1>h, <1>i,
        <1>j, <1>k, <1>l, <1>m, <1>n, <1>o DEF MayPrecede, Says, SameLine
  <2>3. Script("partB", "parent", q5) /\ q5 # <<>>
    BY <1>12
  <2>4. d.call \notin {"read", "write", "pipe", "fork"}
    BY <1>d
  <2>5. Fits("partB", "parent", d, q5)
    BY <2>1, <2>2, <2>3, <2>4 DEF Fits
  <2>6. /\ Script("partB", "parent", <<d>> \o q5) /\ <<d>> \o q5 # <<>>
        /\ Range(<<d>> \o q5) = {d} \cup Range(q5)
    BY <2>5, FitsScript
  <2> QED BY <2>6, <1>12
<1>14. Script("partB", "parent", q3) /\ q3 # <<>>
       /\ Range(q3) = {c, d, e, f, g, h, i, j, k, l, m, n, o}
  <2> HIDE DEF q4
  <2>1. CallOK("partB", "parent", c)
    <3>1. FailureOK("partB", "parent", c.failure)
      BY <1>c, ForkFailedFails
    <3> QED BY <1>c, <3>1, ParentFacts DEF CallOK, PlainOK, Names, Says
  <2>2. \A y \in Range(q4) : MayPrecede("partB", "parent", c, y)
    BY <1>13, <1>c, <1>d, <1>e, <1>f, <1>g, <1>h, <1>i, <1>j, <1>k, <1>l, <1>m, <1>n,
       <1>o DEF MayPrecede, Says, SameLine
  <2>3. Has(q4, "wait")
    BY <1>13, <1>g DEF Has
  <2>4. Script("partB", "parent", q4) /\ q4 # <<>>
    BY <1>13
  <2>5. c.call = "fork"
    BY <1>c
  <2>6. Fits("partB", "parent", c, q4)
    BY <2>1, <2>2, <2>3, <2>4, <2>5 DEF Fits
  <2>7. /\ Script("partB", "parent", <<c>> \o q4) /\ <<c>> \o q4 # <<>>
        /\ Range(<<c>> \o q4) = {c} \cup Range(q4)
    BY <2>6, FitsScript
  <2> QED BY <2>7, <1>13
<1>15. Script("partB", "parent", q2) /\ q2 # <<>>
       /\ Range(q2) = {b, c, d, e, f, g, h, i, j, k, l, m, n, o}
  <2> HIDE DEF q3
  <2>1. CallOK("partB", "parent", b)
    BY <1>b DEF CallOK, PlainOK, Names, Says
  <2>2. \A y \in Range(q3) : MayPrecede("partB", "parent", b, y)
    BY <1>14, <1>b, <1>c, <1>d, <1>e, <1>f, <1>g, <1>h, <1>i, <1>j, <1>k, <1>l, <1>m, <1>n,
       <1>o, ForkFailedFails DEF MayPrecede, Says, SameLine
  <2>3. Has(q3, "fork")
    BY <1>14, <1>c DEF Has
  <2>4. Script("partB", "parent", q3) /\ q3 # <<>>
    BY <1>14
  <2>5. b.call = "pipe"
    BY <1>b
  <2>6. Fits("partB", "parent", b, q3)
    BY <2>1, <2>2, <2>3, <2>4, <2>5 DEF Fits
  <2>7. /\ Script("partB", "parent", <<b>> \o q3) /\ <<b>> \o q3 # <<>>
        /\ Range(<<b>> \o q3) = {b} \cup Range(q3)
    BY <2>6, FitsScript
  <2> QED BY <2>7, <1>14
<1>16. Script("partB", "parent", q1) /\ q1 # <<>>
       /\ Range(q1) = {a, b, c, d, e, f, g, h, i, j, k, l, m, n, o}
  <2> HIDE DEF q2
  <2>1. CallOK("partB", "parent", a)
    BY <1>a DEF CallOK, PlainOK, Names, Says, Texts, ExitCode, Global
  <2>2. \A y \in Range(q2) : MayPrecede("partB", "parent", a, y)
    <3>1. \A y \in {b, c, d} : MayPrecede("partB", "parent", a, y)
      BY <1>a, <1>b, <1>c, <1>d, ForkFailedFails DEF MayPrecede, Says, SameLine, Free,
         Ordered
    <3>2. \A y \in {e, f, g, h} : MayPrecede("partB", "parent", a, y)
      BY <1>a, <1>e, <1>f, <1>g, <1>h DEF MayPrecede, Says, SameLine, Free, Ordered
    <3>3. \A y \in {i, j, k, l} : MayPrecede("partB", "parent", a, y)
      BY <1>a, <1>i, <1>j, <1>k, <1>l DEF MayPrecede, Says, SameLine, Free, Ordered
    <3>4. \A y \in {m, n, o} : MayPrecede("partB", "parent", a, y)
      BY <1>a, <1>m, <1>n, <1>o DEF MayPrecede, Says, SameLine, Free, Ordered
    <3> QED BY <3>1, <3>2, <3>3, <3>4, <1>15
  <2>3. Script("partB", "parent", q2) /\ q2 # <<>>
    BY <1>15
  <2>4. a.call \notin {"read", "write", "pipe", "fork"}
    BY <1>a
  <2>5. Fits("partB", "parent", a, q2)
    BY <2>1, <2>2, <2>3, <2>4 DEF Fits
  <2>6. /\ Script("partB", "parent", <<a>> \o q2) /\ <<a>> \o q2 # <<>>
        /\ Range(<<a>> \o q2) = {a} \cup Range(q2)
    BY <2>5, FitsScript
  <2> QED BY <2>6, <1>15
<1>17. Has(q1, "fork") /\ Has(q1, "wait") /\ Has(q1, "read") /\ Has(q1, "write")
       /\ Has(q1, "pipe")
  BY <1>16, <1>c, <1>g, <1>k, <1>e, <1>b DEF Has
<1> HIDE DEF q1
<1> QED BY <1>1, <1>16, <1>17

LEMMA PartBChild ==
  /\ Script("partB", "child", partB.child) /\ partB.child # <<>>
  /\ Has(partB.child, "fork")
  /\ Has(partB.child, "wait")
  /\ Has(partB.child, "read")
  /\ Has(partB.child, "write")
<1> DEFINE a == Fork("grandchild", Return)
           b == Close("cg", "r")
           c == Write("cg", <<"from child", "\n">>)
           d == Close("cg", "w")
           e == Say("In Child process")
           f == SayOpen("Message from parent")
           g == Close("pc", "w")
           h == Read("pc")
           i == Say("message")
           j == Close("pc", "r")
           k == Wait
           l == Exit("zero")
           q12 == <<l>>
           q11 == <<k>> \o q12
           q10 == <<j>> \o q11
           q9 == <<i>> \o q10
           q8 == <<h>> \o q9
           q7 == <<g>> \o q8
           q6 == <<f>> \o q7
           q5 == <<e>> \o q6
           q4 == <<d>> \o q5
           q3 == <<c>> \o q4
           q2 == <<b>> \o q3
           q1 == <<a>> \o q2
<1>a. a.call = "fork" /\ a.who = "grandchild" /\ a.failure = Return
  BY DEF Fork
<1>b. b.call = "close"
  BY DEF Close
<1>end_b. b.end = <<"cg", "r">>
  BY DEF Close
<1>c. c.call = "write" /\ c.pipe = "cg"
  BY DEF Write
<1>items_c. c.items = <<"from child", "\n">>
  BY DEF Write
<1>d. d.call = "close"
  BY DEF Close
<1>end_d. d.end = <<"cg", "w">>
  BY DEF Close
<1>e. e.call = "printf" /\ e.text = "In Child process" /\ e.newline = TRUE
  BY DEF Say
<1>f. f.call = "printf" /\ f.text = "Message from parent" /\ f.newline = FALSE
  BY DEF SayOpen
<1>g. g.call = "close"
  BY DEF Close
<1>end_g. g.end = <<"pc", "w">>
  BY DEF Close
<1>h. h.call = "read" /\ h.pipe = "pc"
  BY DEF Read
<1>i. i.call = "printf" /\ i.text = "message" /\ i.newline = TRUE
  BY DEF Say
<1>j. j.call = "close"
  BY DEF Close
<1>end_j. j.end = <<"pc", "r">>
  BY DEF Close
<1>k. k.call = "wait"
  BY DEF Wait
<1>l. l.call = "exit" /\ l.value = "zero"
  BY DEF Exit
<1>1. partB.child = q1
  <2> DEFINE S == {a, b, c, d, e, f, g, h, i, j, k, l}
             t1 == <<a, b>>
             t2 == <<c, d>>
             t3 == <<e, f, g>>
             t4 == <<h, i, j>>
             t5 == <<k>>
             t6 == <<l>>
  <2>1. partB.child = Left6(t1, t2, t3, t4, t5, t6)
    BY DEF partB, write_to_pipe, read_from_pipe, Return, Left5, Left6, Join
  <2>2. /\ t1 \in Seq(S) /\ t2 \in Seq(S) /\ t3 \in Seq(S) /\ t4 \in Seq(S)
           /\ t5 \in Seq(S) /\ t6 \in Seq(S)
        /\ a \in S /\ b \in S /\ c \in S /\ d \in S /\ e \in S /\ f \in S /\ g \in S
           /\ h \in S /\ i \in S /\ j \in S /\ k \in S /\ l \in S
    OBVIOUS
  <2>3. q12 \in Seq(S)
    OBVIOUS
  <2> HIDE DEF S, a, b, c, d, e, f, g, h, i, j, k, l
  <2>4. q11 \in Seq(S)
    <3> HIDE DEF q12
    <3> QED BY <2>2, <2>3
  <2>5. q10 \in Seq(S)
    <3> HIDE DEF q11
    <3> QED BY <2>2, <2>4
  <2>6. q9 \in Seq(S)
    <3> HIDE DEF q10
    <3> QED BY <2>2, <2>5
  <2>7. q8 \in Seq(S)
    <3> HIDE DEF q9
    <3> QED BY <2>2, <2>6
  <2>8. q7 \in Seq(S)
    <3> HIDE DEF q8
    <3> QED BY <2>2, <2>7
  <2>9. q6 \in Seq(S)
    <3> HIDE DEF q7
    <3> QED BY <2>2, <2>8
  <2>10. q5 \in Seq(S)
    <3> HIDE DEF q6
    <3> QED BY <2>2, <2>9
  <2>11. q4 \in Seq(S)
    <3> HIDE DEF q5
    <3> QED BY <2>2, <2>10
  <2>12. q3 \in Seq(S)
    <3> HIDE DEF q4
    <3> QED BY <2>2, <2>11
  <2>13. q2 \in Seq(S)
    <3> HIDE DEF q3
    <3> QED BY <2>2, <2>12
  <2>14. q1 \in Seq(S)
    <3> HIDE DEF q2
    <3> QED BY <2>2, <2>13
  <2>15. t5 \o q12 = q11
    OBVIOUS
  <2>16. t4 \o q11 = q8
    <3>1. Front3(h, i, j, q11) = Chain3(h, i, j, q11)
      <4> HIDE DEF q11
      <4> QED BY <2>2, <2>4, Unfold3
    <3> QED BY <3>1 DEF Front3, Chain2, Chain3
  <2>17. t3 \o q8 = q5
    <3>1. Front3(e, f, g, q8) = Chain3(e, f, g, q8)
      <4> HIDE DEF q8
      <4> QED BY <2>2, <2>7, Unfold3
    <3> QED BY <3>1 DEF Front3, Chain2, Chain3
  <2>18. t2 \o q5 = q3
    <3>1. Front2(c, d, q5) = Chain2(c, d, q5)
      <4> HIDE DEF q5
      <4> QED BY <2>2, <2>10, Unfold2
    <3> QED BY <3>1 DEF Front2, Chain2
  <2>19. t1 \o q3 = q1
    <3>1. Front2(a, b, q3) = Chain2(a, b, q3)
      <4> HIDE DEF q3
      <4> QED BY <2>2, <2>12, Unfold2
    <3> QED BY <3>1 DEF Front2, Chain2
  <2>20. Right6(t1, t2, t3, t4, t5, t6) = q1
    <3>1. q12 = t6
      OBVIOUS
    <3> HIDE DEF t1, t2, t3, t4, t5, t6, q1, q2, q3, q4, q5, q6, q7, q8, q9, q10, q11, q12
    <3> QED BY <3>1, <2>15, <2>16, <2>17, <2>18, <2>19 DEF Right5, Right6, Join
  <2> HIDE DEF t1, t2, t3, t4, t5, t6, q1, q2, q3, q4, q5, q6, q7, q8, q9, q10, q11, q12
  <2>21. Left6(t1, t2, t3, t4, t5, t6) = Right6(t1, t2, t3, t4, t5, t6)
    BY <2>2, Regroup6
  <2> QED BY <2>1, <2>20, <2>21
<1>2. Script("partB", "child", q12) /\ q12 # <<>> /\ Range(q12) = {l}
  <2>1. PlainOK("partB", "child", l)
    BY <1>l DEF PlainOK, Says
  <2> QED BY <2>1, ScriptExit
<1> HIDE DEF a, b, c, d, e, f, g, h, i, j, k, l
<1>3. Script("partB", "child", q11) /\ q11 # <<>> /\ Range(q11) = {k, l}
  <2> HIDE DEF q12
  <2>1. CallOK("partB", "child", k)
    BY <1>k DEF CallOK, PlainOK, Names, Says
  <2>2. \A y \in Range(q12) : MayPrecede("partB", "child", k, y)
    BY <1>2, <1>k, <1>l DEF MayPrecede, Says, SameLine
  <2>3. Script("partB", "child", q12) /\ q12 # <<>>
    BY <1>2
  <2>4. k.call \notin {"read", "write", "pipe", "fork"}
    BY <1>k
  <2>5. Fits("partB", "child", k, q12)
    BY <2>1, <2>2, <2>3, <2>4 DEF Fits
  <2>6. /\ Script("partB", "child", <<k>> \o q12) /\ <<k>> \o q12 # <<>>
        /\ Range(<<k>> \o q12) = {k} \cup Range(q12)
    BY <2>5, FitsScript
  <2> QED BY <2>6, <1>2
<1>4. Script("partB", "child", q10) /\ q10 # <<>> /\ Range(q10) = {j, k, l}
  <2> HIDE DEF q11
  <2>1. CallOK("partB", "child", j)
    BY <1>j, <1>end_j DEF CallOK, PlainOK, Names, Says, Ends, Pipes
  <2>2. \A y \in Range(q11) : MayPrecede("partB", "child", j, y)
    BY <1>3, <1>j, <1>k, <1>l DEF MayPrecede, Says, SameLine
  <2>3. Script("partB", "child", q11) /\ q11 # <<>>
    BY <1>3
  <2>4. j.call \notin {"read", "write", "pipe", "fork"}
    BY <1>j
  <2>5. Fits("partB", "child", j, q11)
    BY <2>1, <2>2, <2>3, <2>4 DEF Fits
  <2>6. /\ Script("partB", "child", <<j>> \o q11) /\ <<j>> \o q11 # <<>>
        /\ Range(<<j>> \o q11) = {j} \cup Range(q11)
    BY <2>5, FitsScript
  <2> QED BY <2>6, <1>3
<1>5. Script("partB", "child", q9) /\ q9 # <<>> /\ Range(q9) = {i, j, k, l}
  <2> HIDE DEF q10
  <2>1. CallOK("partB", "child", i)
    BY <1>i DEF CallOK, PlainOK, Names, Says, Texts, ExitCode, Global
  <2>2. \A y \in Range(q10) : MayPrecede("partB", "child", i, y)
    BY <1>4, <1>i, <1>j, <1>k, <1>l DEF MayPrecede, Says, SameLine, Free, Ordered
  <2>3. Script("partB", "child", q10) /\ q10 # <<>>
    BY <1>4
  <2>4. i.call \notin {"read", "write", "pipe", "fork"}
    BY <1>i
  <2>5. Fits("partB", "child", i, q10)
    BY <2>1, <2>2, <2>3, <2>4 DEF Fits
  <2>6. /\ Script("partB", "child", <<i>> \o q10) /\ <<i>> \o q10 # <<>>
        /\ Range(<<i>> \o q10) = {i} \cup Range(q10)
    BY <2>5, FitsScript
  <2> QED BY <2>6, <1>4
<1>6. Script("partB", "child", q8) /\ q8 # <<>> /\ Range(q8) = {h, i, j, k, l}
  <2> HIDE DEF q9
  <2>1. CallOK("partB", "child", h)
    BY <1>h DEF CallOK, PlainOK, Names, Says, In
  <2>2. \A y \in Range(q9) : MayPrecede("partB", "child", h, y)
    BY <1>5, <1>h, <1>i, <1>j, <1>k, <1>l DEF MayPrecede, Says, SameLine
  <2>3. Closes(q9, h.pipe, "r")
    BY <1>5, <1>h, <1>j, <1>end_j DEF Closes
  <2>4. Script("partB", "child", q9) /\ q9 # <<>>
    BY <1>5
  <2>5. h.call = "read"
    BY <1>h
  <2>6. Fits("partB", "child", h, q9)
    BY <2>1, <2>2, <2>3, <2>4, <2>5 DEF Fits
  <2>7. /\ Script("partB", "child", <<h>> \o q9) /\ <<h>> \o q9 # <<>>
        /\ Range(<<h>> \o q9) = {h} \cup Range(q9)
    BY <2>6, FitsScript
  <2> QED BY <2>7, <1>5
<1>7. Script("partB", "child", q7) /\ q7 # <<>> /\ Range(q7) = {g, h, i, j, k, l}
  <2> HIDE DEF q8
  <2>1. CallOK("partB", "child", g)
    BY <1>g, <1>end_g DEF CallOK, PlainOK, Names, Says, Ends, Pipes
  <2>2. \A y \in Range(q8) : MayPrecede("partB", "child", g, y)
    <3>1. g.end # <<h.pipe, "r">>
      BY <1>end_g, <1>h
    <3>2. g.end # j.end
      BY <1>end_g, <1>end_j
    <3> QED BY <3>1, <3>2, <1>6, <1>g, <1>h, <1>i, <1>j, <1>k, <1>l DEF MayPrecede, Says,
        SameLine
  <2>3. Script("partB", "child", q8) /\ q8 # <<>>
    BY <1>6
  <2>4. g.call \notin {"read", "write", "pipe", "fork"}
    BY <1>g
  <2>5. Fits("partB", "child", g, q8)
    BY <2>1, <2>2, <2>3, <2>4 DEF Fits
  <2>6. /\ Script("partB", "child", <<g>> \o q8) /\ <<g>> \o q8 # <<>>
        /\ Range(<<g>> \o q8) = {g} \cup Range(q8)
    BY <2>5, FitsScript
  <2> QED BY <2>6, <1>6
<1>8. Script("partB", "child", q6) /\ q6 # <<>> /\ Range(q6) = {f, g, h, i, j, k, l}
  <2> HIDE DEF q7
  <2>1. CallOK("partB", "child", f)
    BY <1>f DEF CallOK, PlainOK, Names, Says, Texts, ExitCode, Global
  <2>2. \A y \in Range(q7) : MayPrecede("partB", "child", f, y)
    BY <1>7, <1>f, <1>g, <1>h, <1>i, <1>j, <1>k, <1>l DEF MayPrecede, Says, SameLine, Free,
       Ordered
  <2>3. Script("partB", "child", q7) /\ q7 # <<>>
    BY <1>7
  <2>4. f.call \notin {"read", "write", "pipe", "fork"}
    BY <1>f
  <2>5. Fits("partB", "child", f, q7)
    BY <2>1, <2>2, <2>3, <2>4 DEF Fits
  <2>6. /\ Script("partB", "child", <<f>> \o q7) /\ <<f>> \o q7 # <<>>
        /\ Range(<<f>> \o q7) = {f} \cup Range(q7)
    BY <2>5, FitsScript
  <2> QED BY <2>6, <1>7
<1>9. Script("partB", "child", q5) /\ q5 # <<>> /\ Range(q5) = {e, f, g, h, i, j, k, l}
  <2> HIDE DEF q6
  <2>1. CallOK("partB", "child", e)
    BY <1>e DEF CallOK, PlainOK, Names, Says, Texts, ExitCode, Global
  <2>2. \A y \in Range(q6) : MayPrecede("partB", "child", e, y)
    BY <1>8, <1>e, <1>f, <1>g, <1>h, <1>i, <1>j, <1>k, <1>l DEF MayPrecede, Says, SameLine,
       Free, Ordered
  <2>3. Script("partB", "child", q6) /\ q6 # <<>>
    BY <1>8
  <2>4. e.call \notin {"read", "write", "pipe", "fork"}
    BY <1>e
  <2>5. Fits("partB", "child", e, q6)
    BY <2>1, <2>2, <2>3, <2>4 DEF Fits
  <2>6. /\ Script("partB", "child", <<e>> \o q6) /\ <<e>> \o q6 # <<>>
        /\ Range(<<e>> \o q6) = {e} \cup Range(q6)
    BY <2>5, FitsScript
  <2> QED BY <2>6, <1>8
<1>10. Script("partB", "child", q4) /\ q4 # <<>> /\ Range(q4) = {d, e, f, g, h, i, j, k, l}
  <2> HIDE DEF q5
  <2>1. CallOK("partB", "child", d)
    BY <1>d, <1>end_d DEF CallOK, PlainOK, Names, Says, Ends, Pipes
  <2>2. \A y \in Range(q5) : MayPrecede("partB", "child", d, y)
    <3>1. d.end # g.end
      BY <1>end_d, <1>end_g
    <3>2. d.end # <<h.pipe, "r">>
      BY <1>end_d, <1>h
    <3>3. d.end # j.end
      BY <1>end_d, <1>end_j
    <3> QED BY <3>1, <3>2, <3>3, <1>9, <1>d, <1>e, <1>f, <1>g, <1>h, <1>i, <1>j, <1>k,
        <1>l DEF MayPrecede, Says, SameLine
  <2>3. Script("partB", "child", q5) /\ q5 # <<>>
    BY <1>9
  <2>4. d.call \notin {"read", "write", "pipe", "fork"}
    BY <1>d
  <2>5. Fits("partB", "child", d, q5)
    BY <2>1, <2>2, <2>3, <2>4 DEF Fits
  <2>6. /\ Script("partB", "child", <<d>> \o q5) /\ <<d>> \o q5 # <<>>
        /\ Range(<<d>> \o q5) = {d} \cup Range(q5)
    BY <2>5, FitsScript
  <2> QED BY <2>6, <1>9
<1>11. Script("partB", "child", q3) /\ q3 # <<>>
       /\ Range(q3) = {c, d, e, f, g, h, i, j, k, l}
  <2> HIDE DEF q4
  <2>1. CallOK("partB", "child", c)
    BY <1>c, <1>items_c DEF CallOK, PlainOK, Names, Says, Out, Sent
  <2>2. \A y \in Range(q4) : MayPrecede("partB", "child", c, y)
    BY <1>10, <1>c, <1>d, <1>e, <1>f, <1>g, <1>h, <1>i, <1>j, <1>k, <1>l DEF MayPrecede,
       Says, SameLine
  <2>3. Closes(q4, c.pipe, "w")
    BY <1>10, <1>c, <1>d, <1>end_d DEF Closes
  <2>4. Script("partB", "child", q4) /\ q4 # <<>>
    BY <1>10
  <2>5. c.call = "write"
    BY <1>c
  <2>6. Fits("partB", "child", c, q4)
    BY <2>1, <2>2, <2>3, <2>4, <2>5 DEF Fits
  <2>7. /\ Script("partB", "child", <<c>> \o q4) /\ <<c>> \o q4 # <<>>
        /\ Range(<<c>> \o q4) = {c} \cup Range(q4)
    BY <2>6, FitsScript
  <2> QED BY <2>7, <1>10
<1>12. Script("partB", "child", q2) /\ q2 # <<>>
       /\ Range(q2) = {b, c, d, e, f, g, h, i, j, k, l}
  <2> HIDE DEF q3
  <2>1. CallOK("partB", "child", b)
    BY <1>b, <1>end_b DEF CallOK, PlainOK, Names, Says, Ends, Pipes
  <2>2. \A y \in Range(q3) : MayPrecede("partB", "child", b, y)
    <3>1. b.end # <<c.pipe, "w">>
      BY <1>end_b, <1>c
    <3>2. b.end # d.end
      BY <1>end_b, <1>end_d
    <3>3. b.end # g.end
      BY <1>end_b, <1>end_g
    <3>4. b.end # <<h.pipe, "r">>
      BY <1>end_b, <1>h
    <3>5. b.end # j.end
      BY <1>end_b, <1>end_j
    <3> QED BY <3>1, <3>2, <3>3, <3>4, <3>5, <1>11, <1>b, <1>c, <1>d, <1>e, <1>f, <1>g,
        <1>h, <1>i, <1>j, <1>k, <1>l DEF MayPrecede, Says, SameLine
  <2>3. Script("partB", "child", q3) /\ q3 # <<>>
    BY <1>11
  <2>4. b.call \notin {"read", "write", "pipe", "fork"}
    BY <1>b
  <2>5. Fits("partB", "child", b, q3)
    BY <2>1, <2>2, <2>3, <2>4 DEF Fits
  <2>6. /\ Script("partB", "child", <<b>> \o q3) /\ <<b>> \o q3 # <<>>
        /\ Range(<<b>> \o q3) = {b} \cup Range(q3)
    BY <2>5, FitsScript
  <2> QED BY <2>6, <1>11
<1>13. Script("partB", "child", q1) /\ q1 # <<>>
       /\ Range(q1) = {a, b, c, d, e, f, g, h, i, j, k, l}
  <2> HIDE DEF q2
  <2>1. CallOK("partB", "child", a)
    <3>1. FailureOK("partB", "child", a.failure)
      BY <1>a, ReturnOK
    <3> QED BY <1>a, <3>1, ParentFacts DEF CallOK, PlainOK, Names, Says
  <2>2. \A y \in Range(q2) : MayPrecede("partB", "child", a, y)
    BY <1>12, <1>a, <1>b, <1>c, <1>d, <1>e, <1>f, <1>g, <1>h, <1>i, <1>j, <1>k, <1>l
       DEF MayPrecede, Says, SameLine
  <2>3. Has(q2, "wait")
    BY <1>12, <1>k DEF Has
  <2>4. Script("partB", "child", q2) /\ q2 # <<>>
    BY <1>12
  <2>5. a.call = "fork"
    BY <1>a
  <2>6. Fits("partB", "child", a, q2)
    BY <2>1, <2>2, <2>3, <2>4, <2>5 DEF Fits
  <2>7. /\ Script("partB", "child", <<a>> \o q2) /\ <<a>> \o q2 # <<>>
        /\ Range(<<a>> \o q2) = {a} \cup Range(q2)
    BY <2>6, FitsScript
  <2> QED BY <2>7, <1>12
<1>14. Has(q1, "fork") /\ Has(q1, "wait") /\ Has(q1, "read") /\ Has(q1, "write")
  BY <1>13, <1>a, <1>k, <1>h, <1>c DEF Has
<1> HIDE DEF q1
<1> QED BY <1>1, <1>13, <1>14

LEMMA PartBGrandchild ==
  /\ Script("partB", "grandchild", partB.grandchild) /\ partB.grandchild # <<>>
  /\ Has(partB.grandchild, "read")
  /\ Has(partB.grandchild, "write")
<1> DEFINE a == Close("gp", "r")
           b == Write("gp", <<"from grandchild", "\n">>)
           c == Close("gp", "w")
           d == Say("In GrandChild process")
           e == SayOpen("Message from child")
           f == Close("cg", "w")
           g == Read("cg")
           h == Say("message")
           i == Close("cg", "r")
           j == Exit("zero")
           q10 == <<j>>
           q9 == <<i>> \o q10
           q8 == <<h>> \o q9
           q7 == <<g>> \o q8
           q6 == <<f>> \o q7
           q5 == <<e>> \o q6
           q4 == <<d>> \o q5
           q3 == <<c>> \o q4
           q2 == <<b>> \o q3
           q1 == <<a>> \o q2
<1>a. a.call = "close"
  BY DEF Close
<1>end_a. a.end = <<"gp", "r">>
  BY DEF Close
<1>b. b.call = "write" /\ b.pipe = "gp"
  BY DEF Write
<1>items_b. b.items = <<"from grandchild", "\n">>
  BY DEF Write
<1>c. c.call = "close"
  BY DEF Close
<1>end_c. c.end = <<"gp", "w">>
  BY DEF Close
<1>d. d.call = "printf" /\ d.text = "In GrandChild process" /\ d.newline = TRUE
  BY DEF Say
<1>e. e.call = "printf" /\ e.text = "Message from child" /\ e.newline = FALSE
  BY DEF SayOpen
<1>f. f.call = "close"
  BY DEF Close
<1>end_f. f.end = <<"cg", "w">>
  BY DEF Close
<1>g. g.call = "read" /\ g.pipe = "cg"
  BY DEF Read
<1>h. h.call = "printf" /\ h.text = "message" /\ h.newline = TRUE
  BY DEF Say
<1>i. i.call = "close"
  BY DEF Close
<1>end_i. i.end = <<"cg", "r">>
  BY DEF Close
<1>j. j.call = "exit" /\ j.value = "zero"
  BY DEF Exit
<1>1. partB.grandchild = q1
  <2> DEFINE S == {a, b, c, d, e, f, g, h, i, j}
             t1 == <<a>>
             t2 == <<b, c>>
             t3 == <<d, e, f>>
             t4 == <<g, h, i>>
             t5 == <<j>>
  <2>1. partB.grandchild = Left5(t1, t2, t3, t4, t5)
    BY DEF partB, write_to_pipe, read_from_pipe, Return, Left5, Join
  <2>2. /\ t1 \in Seq(S) /\ t2 \in Seq(S) /\ t3 \in Seq(S) /\ t4 \in Seq(S) /\ t5 \in Seq(S)
        /\ a \in S /\ b \in S /\ c \in S /\ d \in S /\ e \in S /\ f \in S /\ g \in S
           /\ h \in S /\ i \in S /\ j \in S
    OBVIOUS
  <2>3. q10 \in Seq(S)
    OBVIOUS
  <2> HIDE DEF S, a, b, c, d, e, f, g, h, i, j
  <2>4. q9 \in Seq(S)
    <3> HIDE DEF q10
    <3> QED BY <2>2, <2>3
  <2>5. q8 \in Seq(S)
    <3> HIDE DEF q9
    <3> QED BY <2>2, <2>4
  <2>6. q7 \in Seq(S)
    <3> HIDE DEF q8
    <3> QED BY <2>2, <2>5
  <2>7. q6 \in Seq(S)
    <3> HIDE DEF q7
    <3> QED BY <2>2, <2>6
  <2>8. q5 \in Seq(S)
    <3> HIDE DEF q6
    <3> QED BY <2>2, <2>7
  <2>9. q4 \in Seq(S)
    <3> HIDE DEF q5
    <3> QED BY <2>2, <2>8
  <2>10. q3 \in Seq(S)
    <3> HIDE DEF q4
    <3> QED BY <2>2, <2>9
  <2>11. q2 \in Seq(S)
    <3> HIDE DEF q3
    <3> QED BY <2>2, <2>10
  <2>12. q1 \in Seq(S)
    <3> HIDE DEF q2
    <3> QED BY <2>2, <2>11
  <2>13. t4 \o q10 = q7
    <3>1. Front3(g, h, i, q10) = Chain3(g, h, i, q10)
      <4> HIDE DEF q10
      <4> QED BY <2>2, <2>3, Unfold3
    <3> QED BY <3>1 DEF Front3, Chain2, Chain3
  <2>14. t3 \o q7 = q4
    <3>1. Front3(d, e, f, q7) = Chain3(d, e, f, q7)
      <4> HIDE DEF q7
      <4> QED BY <2>2, <2>6, Unfold3
    <3> QED BY <3>1 DEF Front3, Chain2, Chain3
  <2>15. t2 \o q4 = q2
    <3>1. Front2(b, c, q4) = Chain2(b, c, q4)
      <4> HIDE DEF q4
      <4> QED BY <2>2, <2>9, Unfold2
    <3> QED BY <3>1 DEF Front2, Chain2
  <2>16. t1 \o q2 = q1
    OBVIOUS
  <2>17. Right5(t1, t2, t3, t4, t5) = q1
    <3>1. q10 = t5
      OBVIOUS
    <3> HIDE DEF t1, t2, t3, t4, t5, q1, q2, q3, q4, q5, q6, q7, q8, q9, q10
    <3> QED BY <3>1, <2>13, <2>14, <2>15, <2>16 DEF Right5, Join
  <2> HIDE DEF t1, t2, t3, t4, t5, q1, q2, q3, q4, q5, q6, q7, q8, q9, q10
  <2>18. Left5(t1, t2, t3, t4, t5) = Right5(t1, t2, t3, t4, t5)
    BY <2>2, Regroup5
  <2> QED BY <2>1, <2>17, <2>18
<1>2. Script("partB", "grandchild", q10) /\ q10 # <<>> /\ Range(q10) = {j}
  <2>1. PlainOK("partB", "grandchild", j)
    BY <1>j DEF PlainOK, Says
  <2> QED BY <2>1, ScriptExit
<1> HIDE DEF a, b, c, d, e, f, g, h, i, j
<1>3. Script("partB", "grandchild", q9) /\ q9 # <<>> /\ Range(q9) = {i, j}
  <2> HIDE DEF q10
  <2>1. CallOK("partB", "grandchild", i)
    BY <1>i, <1>end_i DEF CallOK, PlainOK, Names, Says, Ends, Pipes
  <2>2. \A y \in Range(q10) : MayPrecede("partB", "grandchild", i, y)
    BY <1>2, <1>i, <1>j DEF MayPrecede, Says, SameLine
  <2>3. Script("partB", "grandchild", q10) /\ q10 # <<>>
    BY <1>2
  <2>4. i.call \notin {"read", "write", "pipe", "fork"}
    BY <1>i
  <2>5. Fits("partB", "grandchild", i, q10)
    BY <2>1, <2>2, <2>3, <2>4 DEF Fits
  <2>6. /\ Script("partB", "grandchild", <<i>> \o q10) /\ <<i>> \o q10 # <<>>
        /\ Range(<<i>> \o q10) = {i} \cup Range(q10)
    BY <2>5, FitsScript
  <2> QED BY <2>6, <1>2
<1>4. Script("partB", "grandchild", q8) /\ q8 # <<>> /\ Range(q8) = {h, i, j}
  <2> HIDE DEF q9
  <2>1. CallOK("partB", "grandchild", h)
    BY <1>h DEF CallOK, PlainOK, Names, Says, Texts, ExitCode, Global
  <2>2. \A y \in Range(q9) : MayPrecede("partB", "grandchild", h, y)
    BY <1>3, <1>h, <1>i, <1>j DEF MayPrecede, Says, SameLine, Free, Ordered
  <2>3. Script("partB", "grandchild", q9) /\ q9 # <<>>
    BY <1>3
  <2>4. h.call \notin {"read", "write", "pipe", "fork"}
    BY <1>h
  <2>5. Fits("partB", "grandchild", h, q9)
    BY <2>1, <2>2, <2>3, <2>4 DEF Fits
  <2>6. /\ Script("partB", "grandchild", <<h>> \o q9) /\ <<h>> \o q9 # <<>>
        /\ Range(<<h>> \o q9) = {h} \cup Range(q9)
    BY <2>5, FitsScript
  <2> QED BY <2>6, <1>3
<1>5. Script("partB", "grandchild", q7) /\ q7 # <<>> /\ Range(q7) = {g, h, i, j}
  <2> HIDE DEF q8
  <2>1. CallOK("partB", "grandchild", g)
    BY <1>g DEF CallOK, PlainOK, Names, Says, In
  <2>2. \A y \in Range(q8) : MayPrecede("partB", "grandchild", g, y)
    BY <1>4, <1>g, <1>h, <1>i, <1>j DEF MayPrecede, Says, SameLine
  <2>3. Closes(q8, g.pipe, "r")
    BY <1>4, <1>g, <1>i, <1>end_i DEF Closes
  <2>4. Script("partB", "grandchild", q8) /\ q8 # <<>>
    BY <1>4
  <2>5. g.call = "read"
    BY <1>g
  <2>6. Fits("partB", "grandchild", g, q8)
    BY <2>1, <2>2, <2>3, <2>4, <2>5 DEF Fits
  <2>7. /\ Script("partB", "grandchild", <<g>> \o q8) /\ <<g>> \o q8 # <<>>
        /\ Range(<<g>> \o q8) = {g} \cup Range(q8)
    BY <2>6, FitsScript
  <2> QED BY <2>7, <1>4
<1>6. Script("partB", "grandchild", q6) /\ q6 # <<>> /\ Range(q6) = {f, g, h, i, j}
  <2> HIDE DEF q7
  <2>1. CallOK("partB", "grandchild", f)
    BY <1>f, <1>end_f DEF CallOK, PlainOK, Names, Says, Ends, Pipes
  <2>2. \A y \in Range(q7) : MayPrecede("partB", "grandchild", f, y)
    <3>1. f.end # <<g.pipe, "r">>
      BY <1>end_f, <1>g
    <3>2. f.end # i.end
      BY <1>end_f, <1>end_i
    <3> QED BY <3>1, <3>2, <1>5, <1>f, <1>g, <1>h, <1>i, <1>j DEF MayPrecede, Says, SameLine
  <2>3. Script("partB", "grandchild", q7) /\ q7 # <<>>
    BY <1>5
  <2>4. f.call \notin {"read", "write", "pipe", "fork"}
    BY <1>f
  <2>5. Fits("partB", "grandchild", f, q7)
    BY <2>1, <2>2, <2>3, <2>4 DEF Fits
  <2>6. /\ Script("partB", "grandchild", <<f>> \o q7) /\ <<f>> \o q7 # <<>>
        /\ Range(<<f>> \o q7) = {f} \cup Range(q7)
    BY <2>5, FitsScript
  <2> QED BY <2>6, <1>5
<1>7. Script("partB", "grandchild", q5) /\ q5 # <<>> /\ Range(q5) = {e, f, g, h, i, j}
  <2> HIDE DEF q6
  <2>1. CallOK("partB", "grandchild", e)
    BY <1>e DEF CallOK, PlainOK, Names, Says, Texts, ExitCode, Global
  <2>2. \A y \in Range(q6) : MayPrecede("partB", "grandchild", e, y)
    BY <1>6, <1>e, <1>f, <1>g, <1>h, <1>i, <1>j DEF MayPrecede, Says, SameLine, Free,
       Ordered
  <2>3. Script("partB", "grandchild", q6) /\ q6 # <<>>
    BY <1>6
  <2>4. e.call \notin {"read", "write", "pipe", "fork"}
    BY <1>e
  <2>5. Fits("partB", "grandchild", e, q6)
    BY <2>1, <2>2, <2>3, <2>4 DEF Fits
  <2>6. /\ Script("partB", "grandchild", <<e>> \o q6) /\ <<e>> \o q6 # <<>>
        /\ Range(<<e>> \o q6) = {e} \cup Range(q6)
    BY <2>5, FitsScript
  <2> QED BY <2>6, <1>6
<1>8. Script("partB", "grandchild", q4) /\ q4 # <<>> /\ Range(q4) = {d, e, f, g, h, i, j}
  <2> HIDE DEF q5
  <2>1. CallOK("partB", "grandchild", d)
    BY <1>d DEF CallOK, PlainOK, Names, Says, Texts, ExitCode, Global
  <2>2. \A y \in Range(q5) : MayPrecede("partB", "grandchild", d, y)
    BY <1>7, <1>d, <1>e, <1>f, <1>g, <1>h, <1>i, <1>j DEF MayPrecede, Says, SameLine, Free,
       Ordered
  <2>3. Script("partB", "grandchild", q5) /\ q5 # <<>>
    BY <1>7
  <2>4. d.call \notin {"read", "write", "pipe", "fork"}
    BY <1>d
  <2>5. Fits("partB", "grandchild", d, q5)
    BY <2>1, <2>2, <2>3, <2>4 DEF Fits
  <2>6. /\ Script("partB", "grandchild", <<d>> \o q5) /\ <<d>> \o q5 # <<>>
        /\ Range(<<d>> \o q5) = {d} \cup Range(q5)
    BY <2>5, FitsScript
  <2> QED BY <2>6, <1>7
<1>9. Script("partB", "grandchild", q3) /\ q3 # <<>> /\ Range(q3) = {c, d, e, f, g, h, i, j}
  <2> HIDE DEF q4
  <2>1. CallOK("partB", "grandchild", c)
    BY <1>c, <1>end_c DEF CallOK, PlainOK, Names, Says, Ends, Pipes
  <2>2. \A y \in Range(q4) : MayPrecede("partB", "grandchild", c, y)
    <3>1. c.end # f.end
      BY <1>end_c, <1>end_f
    <3>2. c.end # <<g.pipe, "r">>
      BY <1>end_c, <1>g
    <3>3. c.end # i.end
      BY <1>end_c, <1>end_i
    <3> QED BY <3>1, <3>2, <3>3, <1>8, <1>c, <1>d, <1>e, <1>f, <1>g, <1>h, <1>i, <1>j
        DEF MayPrecede, Says, SameLine
  <2>3. Script("partB", "grandchild", q4) /\ q4 # <<>>
    BY <1>8
  <2>4. c.call \notin {"read", "write", "pipe", "fork"}
    BY <1>c
  <2>5. Fits("partB", "grandchild", c, q4)
    BY <2>1, <2>2, <2>3, <2>4 DEF Fits
  <2>6. /\ Script("partB", "grandchild", <<c>> \o q4) /\ <<c>> \o q4 # <<>>
        /\ Range(<<c>> \o q4) = {c} \cup Range(q4)
    BY <2>5, FitsScript
  <2> QED BY <2>6, <1>8
<1>10. Script("partB", "grandchild", q2) /\ q2 # <<>>
       /\ Range(q2) = {b, c, d, e, f, g, h, i, j}
  <2> HIDE DEF q3
  <2>1. CallOK("partB", "grandchild", b)
    BY <1>b, <1>items_b DEF CallOK, PlainOK, Names, Says, Out, Sent
  <2>2. \A y \in Range(q3) : MayPrecede("partB", "grandchild", b, y)
    BY <1>9, <1>b, <1>c, <1>d, <1>e, <1>f, <1>g, <1>h, <1>i, <1>j DEF MayPrecede, Says,
       SameLine
  <2>3. Closes(q3, b.pipe, "w")
    BY <1>9, <1>b, <1>c, <1>end_c DEF Closes
  <2>4. Script("partB", "grandchild", q3) /\ q3 # <<>>
    BY <1>9
  <2>5. b.call = "write"
    BY <1>b
  <2>6. Fits("partB", "grandchild", b, q3)
    BY <2>1, <2>2, <2>3, <2>4, <2>5 DEF Fits
  <2>7. /\ Script("partB", "grandchild", <<b>> \o q3) /\ <<b>> \o q3 # <<>>
        /\ Range(<<b>> \o q3) = {b} \cup Range(q3)
    BY <2>6, FitsScript
  <2> QED BY <2>7, <1>9
<1>11. Script("partB", "grandchild", q1) /\ q1 # <<>>
       /\ Range(q1) = {a, b, c, d, e, f, g, h, i, j}
  <2> HIDE DEF q2
  <2>1. CallOK("partB", "grandchild", a)
    BY <1>a, <1>end_a DEF CallOK, PlainOK, Names, Says, Ends, Pipes
  <2>2. \A y \in Range(q2) : MayPrecede("partB", "grandchild", a, y)
    <3>1. a.end # <<b.pipe, "w">>
      BY <1>end_a, <1>b
    <3>2. a.end # c.end
      BY <1>end_a, <1>end_c
    <3>3. a.end # f.end
      BY <1>end_a, <1>end_f
    <3>4. a.end # <<g.pipe, "r">>
      BY <1>end_a, <1>g
    <3>5. a.end # i.end
      BY <1>end_a, <1>end_i
    <3> QED BY <3>1, <3>2, <3>3, <3>4, <3>5, <1>10, <1>a, <1>b, <1>c, <1>d, <1>e, <1>f,
        <1>g, <1>h, <1>i, <1>j DEF MayPrecede, Says, SameLine
  <2>3. Script("partB", "grandchild", q2) /\ q2 # <<>>
    BY <1>10
  <2>4. a.call \notin {"read", "write", "pipe", "fork"}
    BY <1>a
  <2>5. Fits("partB", "grandchild", a, q2)
    BY <2>1, <2>2, <2>3, <2>4 DEF Fits
  <2>6. /\ Script("partB", "grandchild", <<a>> \o q2) /\ <<a>> \o q2 # <<>>
        /\ Range(<<a>> \o q2) = {a} \cup Range(q2)
    BY <2>5, FitsScript
  <2> QED BY <2>6, <1>10
<1>12. Has(q1, "read") /\ Has(q1, "write")
  BY <1>11, <1>g, <1>b DEF Has
<1> HIDE DEF q1
<1> QED BY <1>1, <1>11, <1>12

LEMMA ForkTestParent ==
  /\ Script("fork_test", "parent", fork_test.parent) /\ fork_test.parent # <<>>
  /\ Has(fork_test.parent, "fork")
  /\ Has(fork_test.parent, "wait")
<1> DEFINE a == Fork("child", Return)
           b == Say("PARENT: I am the parent process!")
           c == Wait
           d == Say("PARENT: Child's exit code")
           e == Exit("zero")
           q5 == <<e>>
           q4 == <<d>> \o q5
           q3 == <<c>> \o q4
           q2 == <<b>> \o q3
           q1 == <<a>> \o q2
<1>a. a.call = "fork" /\ a.who = "child" /\ a.failure = Return
  BY DEF Fork
<1>b. b.call = "printf" /\ b.text = "PARENT: I am the parent process!" /\ b.newline = TRUE
  BY DEF Say
<1>c. c.call = "wait"
  BY DEF Wait
<1>d. d.call = "printf" /\ d.text = "PARENT: Child's exit code" /\ d.newline = TRUE
  BY DEF Say
<1>e. e.call = "exit" /\ e.value = "zero"
  BY DEF Exit
<1>1. fork_test.parent = q1
  <2> DEFINE S == {a, b, c, d, e}
  <2>1. fork_test.parent = <<a, b, c, d>> \o q5
    BY DEF fork_test, Return
  <2>2. q5 \in Seq(S) /\ a \in S /\ b \in S /\ c \in S /\ d \in S
    OBVIOUS
  <2>3. <<a, b, c, d>> \o q5 = q1
    <3>1. Front4(a, b, c, d, q5) = Chain4(a, b, c, d, q5)
      <4> HIDE DEF S, q5, a, b, c, d, e
      <4> QED BY <2>2, Unfold4
    <3> QED BY <3>1 DEF Front4, Chain2, Chain3, Chain4
  <2> QED BY <2>1, <2>3
<1>2. Script("fork_test", "parent", q5) /\ q5 # <<>> /\ Range(q5) = {e}
  <2>1. PlainOK("fork_test", "parent", e)
    BY <1>e DEF PlainOK, Says
  <2> QED BY <2>1, ScriptExit
<1> HIDE DEF a, b, c, d, e
<1>3. Script("fork_test", "parent", q4) /\ q4 # <<>> /\ Range(q4) = {d, e}
  <2> HIDE DEF q5
  <2>1. CallOK("fork_test", "parent", d)
    BY <1>d DEF CallOK, PlainOK, Names, Says, Texts, ExitCode, Global
  <2>2. \A y \in Range(q5) : MayPrecede("fork_test", "parent", d, y)
    BY <1>2, <1>d, <1>e DEF MayPrecede, Says, SameLine, Free, Ordered
  <2>3. Script("fork_test", "parent", q5) /\ q5 # <<>>
    BY <1>2
  <2>4. d.call \notin {"read", "write", "pipe", "fork"}
    BY <1>d
  <2>5. Fits("fork_test", "parent", d, q5)
    BY <2>1, <2>2, <2>3, <2>4 DEF Fits
  <2>6. /\ Script("fork_test", "parent", <<d>> \o q5) /\ <<d>> \o q5 # <<>>
        /\ Range(<<d>> \o q5) = {d} \cup Range(q5)
    BY <2>5, FitsScript
  <2> QED BY <2>6, <1>2
<1>4. Script("fork_test", "parent", q3) /\ q3 # <<>> /\ Range(q3) = {c, d, e}
  <2> HIDE DEF q4
  <2>1. CallOK("fork_test", "parent", c)
    BY <1>c DEF CallOK, PlainOK, Names, Says
  <2>2. \A y \in Range(q4) : MayPrecede("fork_test", "parent", c, y)
    BY <1>3, <1>c, <1>d, <1>e DEF MayPrecede, Says, SameLine
  <2>3. Script("fork_test", "parent", q4) /\ q4 # <<>>
    BY <1>3
  <2>4. c.call \notin {"read", "write", "pipe", "fork"}
    BY <1>c
  <2>5. Fits("fork_test", "parent", c, q4)
    BY <2>1, <2>2, <2>3, <2>4 DEF Fits
  <2>6. /\ Script("fork_test", "parent", <<c>> \o q4) /\ <<c>> \o q4 # <<>>
        /\ Range(<<c>> \o q4) = {c} \cup Range(q4)
    BY <2>5, FitsScript
  <2> QED BY <2>6, <1>3
<1>5. Script("fork_test", "parent", q2) /\ q2 # <<>> /\ Range(q2) = {b, c, d, e}
  <2> HIDE DEF q3
  <2>1. CallOK("fork_test", "parent", b)
    BY <1>b DEF CallOK, PlainOK, Names, Says, Texts, ExitCode, Global
  <2>2. \A y \in Range(q3) : MayPrecede("fork_test", "parent", b, y)
    BY <1>4, <1>b, <1>c, <1>d, <1>e DEF MayPrecede, Says, SameLine, Free, Ordered
  <2>3. Script("fork_test", "parent", q3) /\ q3 # <<>>
    BY <1>4
  <2>4. b.call \notin {"read", "write", "pipe", "fork"}
    BY <1>b
  <2>5. Fits("fork_test", "parent", b, q3)
    BY <2>1, <2>2, <2>3, <2>4 DEF Fits
  <2>6. /\ Script("fork_test", "parent", <<b>> \o q3) /\ <<b>> \o q3 # <<>>
        /\ Range(<<b>> \o q3) = {b} \cup Range(q3)
    BY <2>5, FitsScript
  <2> QED BY <2>6, <1>4
<1>6. Script("fork_test", "parent", q1) /\ q1 # <<>> /\ Range(q1) = {a, b, c, d, e}
  <2> HIDE DEF q2
  <2>1. CallOK("fork_test", "parent", a)
    <3>1. FailureOK("fork_test", "parent", a.failure)
      BY <1>a, ReturnOK
    <3> QED BY <1>a, <3>1, ParentFacts DEF CallOK, PlainOK, Names, Says
  <2>2. \A y \in Range(q2) : MayPrecede("fork_test", "parent", a, y)
    BY <1>5, <1>a, <1>b, <1>c, <1>d, <1>e DEF MayPrecede, Says, SameLine
  <2>3. Has(q2, "wait")
    BY <1>5, <1>c DEF Has
  <2>4. Script("fork_test", "parent", q2) /\ q2 # <<>>
    BY <1>5
  <2>5. a.call = "fork"
    BY <1>a
  <2>6. Fits("fork_test", "parent", a, q2)
    BY <2>1, <2>2, <2>3, <2>4, <2>5 DEF Fits
  <2>7. /\ Script("fork_test", "parent", <<a>> \o q2) /\ <<a>> \o q2 # <<>>
        /\ Range(<<a>> \o q2) = {a} \cup Range(q2)
    BY <2>6, FitsScript
  <2> QED BY <2>7, <1>5
<1>7. Has(q1, "fork") /\ Has(q1, "wait")
  BY <1>6, <1>a, <1>c DEF Has
<1> HIDE DEF q1
<1> QED BY <1>1, <1>6, <1>7

LEMMA ForkTestChild ==
  /\ Script("fork_test", "child", fork_test.child) /\ fork_test.child # <<>>
<1> DEFINE a == Say("CHILD: I am the child process!")
           b == Scanf
           c == Say("CHILD: Goodbye!")
           d == Exit("variable")
           q4 == <<d>>
           q3 == <<c>> \o q4
           q2 == <<b>> \o q3
           q1 == <<a>> \o q2
<1>a. a.call = "printf" /\ a.text = "CHILD: I am the child process!" /\ a.newline = TRUE
  BY DEF Say
<1>b. b.call = "scanf"
  BY DEF Scanf
<1>c. c.call = "printf" /\ c.text = "CHILD: Goodbye!" /\ c.newline = TRUE
  BY DEF Say
<1>d. d.call = "exit" /\ d.value = "variable"
  BY DEF Exit
<1>1. fork_test.child = q1
  BY Quad DEF fork_test
<1>2. Script("fork_test", "child", q4) /\ q4 # <<>> /\ Range(q4) = {d}
  <2>1. PlainOK("fork_test", "child", d)
    BY <1>d DEF PlainOK, Says
  <2> QED BY <2>1, ScriptExit
<1> HIDE DEF a, b, c, d
<1>3. Script("fork_test", "child", q3) /\ q3 # <<>> /\ Range(q3) = {c, d}
  <2> HIDE DEF q4
  <2>1. CallOK("fork_test", "child", c)
    BY <1>c DEF CallOK, PlainOK, Names, Says, Texts, ExitCode, Global
  <2>2. \A y \in Range(q4) : MayPrecede("fork_test", "child", c, y)
    BY <1>2, <1>c, <1>d DEF MayPrecede, Says, SameLine, Free, Ordered
  <2>3. Script("fork_test", "child", q4) /\ q4 # <<>>
    BY <1>2
  <2>4. c.call \notin {"read", "write", "pipe", "fork"}
    BY <1>c
  <2>5. Fits("fork_test", "child", c, q4)
    BY <2>1, <2>2, <2>3, <2>4 DEF Fits
  <2>6. /\ Script("fork_test", "child", <<c>> \o q4) /\ <<c>> \o q4 # <<>>
        /\ Range(<<c>> \o q4) = {c} \cup Range(q4)
    BY <2>5, FitsScript
  <2> QED BY <2>6, <1>2
<1>4. Script("fork_test", "child", q2) /\ q2 # <<>> /\ Range(q2) = {b, c, d}
  <2> HIDE DEF q3
  <2>1. CallOK("fork_test", "child", b)
    BY <1>b DEF CallOK, PlainOK, Names, Says
  <2>2. \A y \in Range(q3) : MayPrecede("fork_test", "child", b, y)
    BY <1>3, <1>b, <1>c, <1>d DEF MayPrecede, Says, SameLine
  <2>3. Script("fork_test", "child", q3) /\ q3 # <<>>
    BY <1>3
  <2>4. b.call \notin {"read", "write", "pipe", "fork"}
    BY <1>b
  <2>5. Fits("fork_test", "child", b, q3)
    BY <2>1, <2>2, <2>3, <2>4 DEF Fits
  <2>6. /\ Script("fork_test", "child", <<b>> \o q3) /\ <<b>> \o q3 # <<>>
        /\ Range(<<b>> \o q3) = {b} \cup Range(q3)
    BY <2>5, FitsScript
  <2> QED BY <2>6, <1>3
<1>5. Script("fork_test", "child", q1) /\ q1 # <<>> /\ Range(q1) = {a, b, c, d}
  <2> HIDE DEF q2
  <2>1. CallOK("fork_test", "child", a)
    BY <1>a DEF CallOK, PlainOK, Names, Says, Texts, ExitCode, Global
  <2>2. \A y \in Range(q2) : MayPrecede("fork_test", "child", a, y)
    BY <1>4, <1>a, <1>b, <1>c, <1>d DEF MayPrecede, Says, SameLine, Free, Ordered
  <2>3. Script("fork_test", "child", q2) /\ q2 # <<>>
    BY <1>4
  <2>4. a.call \notin {"read", "write", "pipe", "fork"}
    BY <1>a
  <2>5. Fits("fork_test", "child", a, q2)
    BY <2>1, <2>2, <2>3, <2>4 DEF Fits
  <2>6. /\ Script("fork_test", "child", <<a>> \o q2) /\ <<a>> \o q2 # <<>>
        /\ Range(<<a>> \o q2) = {a} \cup Range(q2)
    BY <2>5, FitsScript
  <2> QED BY <2>6, <1>4
<1> HIDE DEF q1
<1> QED BY <1>1, <1>5

LEMMA PartAForkParent ==
  /\ Script("partA_fork", "parent", partA_fork.parent) /\ partA_fork.parent # <<>>
  /\ Has(partA_fork.parent, "fork")
<1> DEFINE a == Say("Before fork")
           b == Fork("child", Errors)
           c == Say("After fork")
           d == Say("Parent process")
           e == Exit("zero")
           q5 == <<e>>
           q4 == <<d>> \o q5
           q3 == <<c>> \o q4
           q2 == <<b>> \o q3
           q1 == <<a>> \o q2
<1>a. a.call = "printf" /\ a.text = "Before fork" /\ a.newline = TRUE
  BY DEF Say
<1>b. b.call = "fork" /\ b.who = "child" /\ b.failure = Errors
  BY DEF Fork
<1>c. c.call = "printf" /\ c.text = "After fork" /\ c.newline = TRUE
  BY DEF Say
<1>d. d.call = "printf" /\ d.text = "Parent process" /\ d.newline = TRUE
  BY DEF Say
<1>e. e.call = "exit" /\ e.value = "zero"
  BY DEF Exit
<1>1. partA_fork.parent = q1
  <2> DEFINE S == {a, b, c, d, e}
  <2>1. partA_fork.parent = <<a, b, c, d>> \o q5
    BY DEF partA_fork, Return, Errors
  <2>2. q5 \in Seq(S) /\ a \in S /\ b \in S /\ c \in S /\ d \in S
    OBVIOUS
  <2>3. <<a, b, c, d>> \o q5 = q1
    <3>1. Front4(a, b, c, d, q5) = Chain4(a, b, c, d, q5)
      <4> HIDE DEF S, q5, a, b, c, d, e
      <4> QED BY <2>2, Unfold4
    <3> QED BY <3>1 DEF Front4, Chain2, Chain3, Chain4
  <2> QED BY <2>1, <2>3
<1>2. Script("partA_fork", "parent", q5) /\ q5 # <<>> /\ Range(q5) = {e}
  <2>1. PlainOK("partA_fork", "parent", e)
    BY <1>e DEF PlainOK, Says
  <2> QED BY <2>1, ScriptExit
<1> HIDE DEF a, b, c, d, e
<1>3. Script("partA_fork", "parent", q4) /\ q4 # <<>> /\ Range(q4) = {d, e}
  <2> HIDE DEF q5
  <2>1. CallOK("partA_fork", "parent", d)
    BY <1>d DEF CallOK, PlainOK, Names, Says, Texts, ExitCode, Global
  <2>2. \A y \in Range(q5) : MayPrecede("partA_fork", "parent", d, y)
    BY <1>2, <1>d, <1>e DEF MayPrecede, Says, SameLine, Free, Ordered
  <2>3. Script("partA_fork", "parent", q5) /\ q5 # <<>>
    BY <1>2
  <2>4. d.call \notin {"read", "write", "pipe", "fork"}
    BY <1>d
  <2>5. Fits("partA_fork", "parent", d, q5)
    BY <2>1, <2>2, <2>3, <2>4 DEF Fits
  <2>6. /\ Script("partA_fork", "parent", <<d>> \o q5) /\ <<d>> \o q5 # <<>>
        /\ Range(<<d>> \o q5) = {d} \cup Range(q5)
    BY <2>5, FitsScript
  <2> QED BY <2>6, <1>2
<1>4. Script("partA_fork", "parent", q3) /\ q3 # <<>> /\ Range(q3) = {c, d, e}
  <2> HIDE DEF q4
  <2>1. CallOK("partA_fork", "parent", c)
    BY <1>c DEF CallOK, PlainOK, Names, Says, Texts, ExitCode, Global
  <2>2. \A y \in Range(q4) : MayPrecede("partA_fork", "parent", c, y)
    BY <1>3, <1>c, <1>d, <1>e DEF MayPrecede, Says, SameLine, Free, Ordered
  <2>3. Script("partA_fork", "parent", q4) /\ q4 # <<>>
    BY <1>3
  <2>4. c.call \notin {"read", "write", "pipe", "fork"}
    BY <1>c
  <2>5. Fits("partA_fork", "parent", c, q4)
    BY <2>1, <2>2, <2>3, <2>4 DEF Fits
  <2>6. /\ Script("partA_fork", "parent", <<c>> \o q4) /\ <<c>> \o q4 # <<>>
        /\ Range(<<c>> \o q4) = {c} \cup Range(q4)
    BY <2>5, FitsScript
  <2> QED BY <2>6, <1>3
<1>5. Script("partA_fork", "parent", q2) /\ q2 # <<>> /\ Range(q2) = {b, c, d, e}
  <2> HIDE DEF q3
  <2>1. CallOK("partA_fork", "parent", b)
    <3>1. FailureOK("partA_fork", "parent", b.failure)
      BY <1>b, ErrorsFails
    <3> QED BY <1>b, <3>1, ParentFacts DEF CallOK, PlainOK, Names, Says
  <2>2. \A y \in Range(q3) : MayPrecede("partA_fork", "parent", b, y)
    BY <1>4, <1>b, <1>c, <1>d, <1>e DEF MayPrecede, Says, SameLine
  <2>3. Script("partA_fork", "parent", q3) /\ q3 # <<>>
    BY <1>4
  <2>4. b.call = "fork"
    BY <1>b
  <2>5. "partA_fork" \notin Ordered
    BY DEF Ordered
  <2>6. Fits("partA_fork", "parent", b, q3)
    BY <2>1, <2>2, <2>3, <2>4, <2>5 DEF Fits
  <2>7. /\ Script("partA_fork", "parent", <<b>> \o q3) /\ <<b>> \o q3 # <<>>
        /\ Range(<<b>> \o q3) = {b} \cup Range(q3)
    BY <2>6, FitsScript
  <2> QED BY <2>7, <1>4
<1>6. Script("partA_fork", "parent", q1) /\ q1 # <<>> /\ Range(q1) = {a, b, c, d, e}
  <2> HIDE DEF q2
  <2>1. CallOK("partA_fork", "parent", a)
    BY <1>a DEF CallOK, PlainOK, Names, Says, Texts, ExitCode, Global
  <2>2. \A y \in Range(q2) : MayPrecede("partA_fork", "parent", a, y)
    BY <1>5, <1>a, <1>b, <1>c, <1>d, <1>e, ErrorsFails DEF MayPrecede, Says, SameLine,
       Free, Ordered
  <2>3. Script("partA_fork", "parent", q2) /\ q2 # <<>>
    BY <1>5
  <2>4. a.call \notin {"read", "write", "pipe", "fork"}
    BY <1>a
  <2>5. Fits("partA_fork", "parent", a, q2)
    BY <2>1, <2>2, <2>3, <2>4 DEF Fits
  <2>6. /\ Script("partA_fork", "parent", <<a>> \o q2) /\ <<a>> \o q2 # <<>>
        /\ Range(<<a>> \o q2) = {a} \cup Range(q2)
    BY <2>5, FitsScript
  <2> QED BY <2>6, <1>5
<1>7. Has(q1, "fork")
  BY <1>6, <1>b DEF Has
<1> HIDE DEF q1
<1> QED BY <1>1, <1>6, <1>7

LEMMA PartAForkChild ==
  /\ Script("partA_fork", "child", partA_fork.child) /\ partA_fork.child # <<>>
<1> DEFINE a == Say("After fork")
           b == Say("In Child process")
           c == Exit("zero")
           q3 == <<c>>
           q2 == <<b>> \o q3
           q1 == <<a>> \o q2
<1>a. a.call = "printf" /\ a.text = "After fork" /\ a.newline = TRUE
  BY DEF Say
<1>b. b.call = "printf" /\ b.text = "In Child process" /\ b.newline = TRUE
  BY DEF Say
<1>c. c.call = "exit" /\ c.value = "zero"
  BY DEF Exit
<1>1. partA_fork.child = q1
  <2> DEFINE S == {a, b, c}
  <2>1. partA_fork.child = <<a, b>> \o q3
    BY DEF partA_fork, Return
  <2>2. q3 \in Seq(S) /\ a \in S /\ b \in S
    OBVIOUS
  <2>3. <<a, b>> \o q3 = q1
    <3>1. Front2(a, b, q3) = Chain2(a, b, q3)
      <4> HIDE DEF S, q3, a, b, c
      <4> QED BY <2>2, Unfold2
    <3> QED BY <3>1 DEF Front2, Chain2
  <2> QED BY <2>1, <2>3
<1>2. Script("partA_fork", "child", q3) /\ q3 # <<>> /\ Range(q3) = {c}
  <2>1. PlainOK("partA_fork", "child", c)
    BY <1>c DEF PlainOK, Says
  <2> QED BY <2>1, ScriptExit
<1> HIDE DEF a, b, c
<1>3. Script("partA_fork", "child", q2) /\ q2 # <<>> /\ Range(q2) = {b, c}
  <2> HIDE DEF q3
  <2>1. CallOK("partA_fork", "child", b)
    BY <1>b DEF CallOK, PlainOK, Names, Says, Texts, ExitCode, Global
  <2>2. \A y \in Range(q3) : MayPrecede("partA_fork", "child", b, y)
    BY <1>2, <1>b, <1>c DEF MayPrecede, Says, SameLine, Free, Ordered
  <2>3. Script("partA_fork", "child", q3) /\ q3 # <<>>
    BY <1>2
  <2>4. b.call \notin {"read", "write", "pipe", "fork"}
    BY <1>b
  <2>5. Fits("partA_fork", "child", b, q3)
    BY <2>1, <2>2, <2>3, <2>4 DEF Fits
  <2>6. /\ Script("partA_fork", "child", <<b>> \o q3) /\ <<b>> \o q3 # <<>>
        /\ Range(<<b>> \o q3) = {b} \cup Range(q3)
    BY <2>5, FitsScript
  <2> QED BY <2>6, <1>2
<1>4. Script("partA_fork", "child", q1) /\ q1 # <<>> /\ Range(q1) = {a, b, c}
  <2> HIDE DEF q2
  <2>1. CallOK("partA_fork", "child", a)
    BY <1>a DEF CallOK, PlainOK, Names, Says, Texts, ExitCode, Global
  <2>2. \A y \in Range(q2) : MayPrecede("partA_fork", "child", a, y)
    BY <1>3, <1>a, <1>b, <1>c DEF MayPrecede, Says, SameLine, Free, Ordered
  <2>3. Script("partA_fork", "child", q2) /\ q2 # <<>>
    BY <1>3
  <2>4. a.call \notin {"read", "write", "pipe", "fork"}
    BY <1>a
  <2>5. Fits("partA_fork", "child", a, q2)
    BY <2>1, <2>2, <2>3, <2>4 DEF Fits
  <2>6. /\ Script("partA_fork", "child", <<a>> \o q2) /\ <<a>> \o q2 # <<>>
        /\ Range(<<a>> \o q2) = {a} \cup Range(q2)
    BY <2>5, FitsScript
  <2> QED BY <2>6, <1>3
<1> HIDE DEF q1
<1> QED BY <1>1, <1>4

LEMMA ForkTextParent ==
  /\ Script("fork_text", "parent", fork_text.parent) /\ fork_text.parent # <<>>
  /\ Has(fork_text.parent, "fork")
<1> DEFINE a == Fork("child", <<Exit("one")>>)
           b == Endl("Global variable")
           c == Exit("zero")
           q3 == <<c>>
           q2 == <<b>> \o q3
           q1 == <<a>> \o q2
<1>a. a.call = "fork" /\ a.who = "child" /\ a.failure = <<Exit("one")>>
  BY DEF Fork
<1>b. b.call = "endl" /\ b.text = "Global variable"
  BY DEF Endl
<1>c. c.call = "exit" /\ c.value = "zero"
  BY DEF Exit
<1>1. fork_text.parent = q1
  <2> DEFINE S == {a, b, c}
  <2>1. fork_text.parent = <<a, b>> \o q3
    BY DEF fork_text, Return
  <2>2. q3 \in Seq(S) /\ a \in S /\ b \in S
    OBVIOUS
  <2>3. <<a, b>> \o q3 = q1
    <3>1. Front2(a, b, q3) = Chain2(a, b, q3)
      <4> HIDE DEF S, q3, a, b, c
      <4> QED BY <2>2, Unfold2
    <3> QED BY <3>1 DEF Front2, Chain2
  <2> QED BY <2>1, <2>3
<1>2. Script("fork_text", "parent", q3) /\ q3 # <<>> /\ Range(q3) = {c}
  <2>1. PlainOK("fork_text", "parent", c)
    BY <1>c DEF PlainOK, Says
  <2> QED BY <2>1, ScriptExit
<1> HIDE DEF a, b, c
<1>3. Script("fork_text", "parent", q2) /\ q2 # <<>> /\ Range(q2) = {b, c}
  <2> HIDE DEF q3
  <2>1. CallOK("fork_text", "parent", b)
    BY <1>b DEF CallOK, PlainOK, Names, Says, Texts, ExitCode, Global
  <2>2. \A y \in Range(q3) : MayPrecede("fork_text", "parent", b, y)
    BY <1>2, <1>b, <1>c DEF MayPrecede, Says, SameLine, Free, Ordered
  <2>3. Script("fork_text", "parent", q3) /\ q3 # <<>>
    BY <1>2
  <2>4. b.call \notin {"read", "write", "pipe", "fork"}
    BY <1>b
  <2>5. Fits("fork_text", "parent", b, q3)
    BY <2>1, <2>2, <2>3, <2>4 DEF Fits
  <2>6. /\ Script("fork_text", "parent", <<b>> \o q3) /\ <<b>> \o q3 # <<>>
        /\ Range(<<b>> \o q3) = {b} \cup Range(q3)
    BY <2>5, FitsScript
  <2> QED BY <2>6, <1>2
<1>4. Script("fork_text", "parent", q1) /\ q1 # <<>> /\ Range(q1) = {a, b, c}
  <2> HIDE DEF q2
  <2>1. CallOK("fork_text", "parent", a)
    <3>1. FailureOK("fork_text", "parent", a.failure)
      BY <1>a, ExitOneOK
    <3> QED BY <1>a, <3>1, ParentFacts DEF CallOK, PlainOK, Names, Says
  <2>2. \A y \in Range(q2) : MayPrecede("fork_text", "parent", a, y)
    BY <1>3, <1>a, <1>b, <1>c DEF MayPrecede, Says, SameLine
  <2>3. Script("fork_text", "parent", q2) /\ q2 # <<>>
    BY <1>3
  <2>4. a.call = "fork"
    BY <1>a
  <2>5. "fork_text" \notin Ordered
    BY DEF Ordered
  <2>6. Fits("fork_text", "parent", a, q2)
    BY <2>1, <2>2, <2>3, <2>4, <2>5 DEF Fits
  <2>7. /\ Script("fork_text", "parent", <<a>> \o q2) /\ <<a>> \o q2 # <<>>
        /\ Range(<<a>> \o q2) = {a} \cup Range(q2)
    BY <2>6, FitsScript
  <2> QED BY <2>7, <1>3
<1>5. Has(q1, "fork")
  BY <1>4, <1>a DEF Has
<1> HIDE DEF q1
<1> QED BY <1>1, <1>4, <1>5

LEMMA ForkTextChild ==
  /\ Script("fork_text", "child", fork_text.child) /\ fork_text.child # <<>>
  /\ Has(fork_text.child, "increment")
<1> DEFINE a == Increment
           b == Endl("Global variable")
           c == Exit("zero")
           q3 == <<c>>
           q2 == <<b>> \o q3
           q1 == <<a>> \o q2
<1>a. a.call = "increment"
  BY DEF Increment
<1>b. b.call = "endl" /\ b.text = "Global variable"
  BY DEF Endl
<1>c. c.call = "exit" /\ c.value = "zero"
  BY DEF Exit
<1>1. fork_text.child = q1
  <2> DEFINE S == {a, b, c}
  <2>1. fork_text.child = <<a, b>> \o q3
    BY DEF fork_text, Return
  <2>2. q3 \in Seq(S) /\ a \in S /\ b \in S
    OBVIOUS
  <2>3. <<a, b>> \o q3 = q1
    <3>1. Front2(a, b, q3) = Chain2(a, b, q3)
      <4> HIDE DEF S, q3, a, b, c
      <4> QED BY <2>2, Unfold2
    <3> QED BY <3>1 DEF Front2, Chain2
  <2> QED BY <2>1, <2>3
<1>2. Script("fork_text", "child", q3) /\ q3 # <<>> /\ Range(q3) = {c}
  <2>1. PlainOK("fork_text", "child", c)
    BY <1>c DEF PlainOK, Says
  <2> QED BY <2>1, ScriptExit
<1> HIDE DEF a, b, c
<1>3. Script("fork_text", "child", q2) /\ q2 # <<>> /\ Range(q2) = {b, c}
  <2> HIDE DEF q3
  <2>1. CallOK("fork_text", "child", b)
    BY <1>b DEF CallOK, PlainOK, Names, Says, Texts, ExitCode, Global
  <2>2. \A y \in Range(q3) : MayPrecede("fork_text", "child", b, y)
    BY <1>2, <1>b, <1>c DEF MayPrecede, Says, SameLine, Free, Ordered
  <2>3. Script("fork_text", "child", q3) /\ q3 # <<>>
    BY <1>2
  <2>4. b.call \notin {"read", "write", "pipe", "fork"}
    BY <1>b
  <2>5. Fits("fork_text", "child", b, q3)
    BY <2>1, <2>2, <2>3, <2>4 DEF Fits
  <2>6. /\ Script("fork_text", "child", <<b>> \o q3) /\ <<b>> \o q3 # <<>>
        /\ Range(<<b>> \o q3) = {b} \cup Range(q3)
    BY <2>5, FitsScript
  <2> QED BY <2>6, <1>2
<1>4. Script("fork_text", "child", q1) /\ q1 # <<>> /\ Range(q1) = {a, b, c}
  <2> HIDE DEF q2
  <2>1. CallOK("fork_text", "child", a)
    BY <1>a DEF CallOK, PlainOK, Names, Says
  <2>2. \A y \in Range(q2) : MayPrecede("fork_text", "child", a, y)
    BY <1>3, <1>a, <1>b, <1>c DEF MayPrecede, Says, SameLine
  <2>3. Script("fork_text", "child", q2) /\ q2 # <<>>
    BY <1>3
  <2>4. a.call \notin {"read", "write", "pipe", "fork"}
    BY <1>a
  <2>5. Fits("fork_text", "child", a, q2)
    BY <2>1, <2>2, <2>3, <2>4 DEF Fits
  <2>6. /\ Script("fork_text", "child", <<a>> \o q2) /\ <<a>> \o q2 # <<>>
        /\ Range(<<a>> \o q2) = {a} \cup Range(q2)
    BY <2>5, FitsScript
  <2> QED BY <2>6, <1>3
<1>5. Has(q1, "increment")
  BY <1>4, <1>a DEF Has
<1> HIDE DEF q1
<1> QED BY <1>1, <1>4, <1>5

\* What a process does after a fork that has failed is a script, too.
LEMMA FailureScript ==
  ASSUME NEW pr, NEW p, NEW f, FailureOK(pr, p, f)
  PROVE  Script(pr, p, f) /\ f # <<>>
<1>1. f \in Seq(Range(f)) /\ f # <<>>
  BY DEF FailureOK
<1>2. \A c \in Range(f) : c.call \in {"printf", "write1", "exit"} /\ PlainOK(pr, p, c)
  BY DEF FailureOK
<1>3. \A c \in Range(f) : CallOK(pr, p, c)
  BY <1>2 DEF CallOK, Names
<1>4. ASSUME NEW i \in 1..Len(f), NEW k \in 1..Len(f), i < k
      PROVE  MayPrecede(pr, p, f[i], f[k])
  <2>1. f[i].call # "exit" /\ ~SameLine(f[i], f[k])
    BY <1>4 DEF FailureOK
  <2>2. f[i] \in Range(f) /\ f[k] \in Range(f)
    BY <1>1, <1>4 DEF Range
  <2>3. /\ f[i].call \in {"printf", "write1"}
        /\ f[k].call \in {"printf", "write1", "exit"}
    BY <1>2, <2>1, <2>2
  <2> QED BY <2>1, <2>3 DEF MayPrecede
<1>5. Followed(pr, f)
  <2>1. Has(f, "exit")
    BY DEF FailureOK, Has
  <2> QED BY <2>1, <1>2 DEF Followed
<1> QED BY <1>1, <1>3, <1>4, <1>5 DEF Script

\* The lines of fork-01.c and the return behind them.
Written == [i \in 1..MAX_COUNT |-> WriteOut(i)] \o Return

LEMMA WrittenFails ==
  ASSUME NEW p
  PROVE  FailureOK("fork_01", p, Written) /\ \A c \in Range(Written) : ~Says(c)
<1> DEFINE e == Exit("zero")
           m == MAX_COUNT
           w == [i \in 1..m |-> WriteOut(i)]
           q == w \o <<e>>
<1>1. m \in Nat
  BY CountAssumption
<1>2. \A i \in 1..m : WriteOut(i).call = "write1" /\ WriteOut(i).value = i
  BY DEF WriteOut
<1>3. e.call = "exit" /\ e.value = "zero"
  BY DEF Exit
<1>4. Written = q
  BY DEF Written, Return
<1> DEFINE S == {WriteOut(i) : i \in 1..m} \cup {e}
<1>5. w \in Seq(S) /\ <<e>> \in Seq(S) /\ Len(w) = m /\ \A i \in 1..m : w[i] = WriteOut(i)
  BY <1>1
<1> HIDE DEF e, m, w, S
<1>6. /\ q \in Seq(S) /\ Len(q) = m + 1
      /\ \A i \in 1..m : q[i] = WriteOut(i)
      /\ q[m + 1] = e
  BY <1>1, <1>5
<1> HIDE DEF q
<1>7. DOMAIN q = 1..(m + 1) /\ q # <<>>
  BY <1>1, <1>6
<1>8. ASSUME NEW c \in Range(q)
      PROVE  c = e \/ \E i \in 1..m : c = WriteOut(i)
  <2>1. PICK i \in 1..(m + 1) : c = q[i]
    BY <1>7 DEF Range
  <2>2. CASE i = m + 1
    BY <2>1, <2>2, <1>6
  <2>3. CASE i # m + 1
    <3>1. i \in 1..m
      BY <2>3, <1>1
    <3> QED BY <2>1, <3>1, <1>6
  <2> QED BY <2>2, <2>3
<1>9. ASSUME NEW c \in Range(q)
      PROVE  /\ c.call \in {"write1", "exit"}
             /\ PlainOK("fork_01", p, c)
             /\ ~Says(c)
  <2>1. CASE c = e
    BY <2>1, <1>3 DEF PlainOK, Says
  <2>2. CASE \E i \in 1..m : c = WriteOut(i)
    <3>1. PICK i \in 1..m : c = WriteOut(i)
      BY <2>2
    <3>2. c.call = "write1" /\ c.value \in Int
      BY <3>1, <1>1, <1>2
    <3> QED BY <3>2 DEF PlainOK, Says
  <2> QED BY <1>8, <2>1, <2>2
<1>10. \E c \in Range(q) : c.call = "exit"
  <2>1. m + 1 \in DOMAIN q
    BY <1>1, <1>7
  <2> QED BY <2>1, <1>3, <1>6 DEF Range
<1>11. ASSUME NEW i \in 1..Len(q), NEW k \in 1..Len(q), i < k
       PROVE  q[i].call # "exit" /\ ~SameLine(q[i], q[k])
  <2>1. i \in 1..m /\ q[i] = WriteOut(i)
    BY <1>1, <1>6, <1>11
  <2>2. q[i].call = "write1" /\ q[i].value = i
    BY <2>1, <1>2
  <2>3. q[k].call = "write1" => q[k].value = k
    <3>1. CASE k = m + 1
      BY <3>1, <1>3, <1>6
    <3>2. CASE k # m + 1
      <4>1. k \in 1..m
        BY <3>2, <1>1, <1>6
      <4> QED BY <4>1, <1>2, <1>6
    <3> QED BY <3>1, <3>2
  <2>4. i # k
    BY <1>11
  <2> QED BY <2>2, <2>3, <2>4 DEF SameLine, Says
<1>12. q \in Seq(Range(q))
  <2>1. \A i \in 1..Len(q) : q[i] \in Range(q)
    BY <1>6, <1>7 DEF Range
  <2> QED BY <2>1, <1>6
<1>13. FailureOK("fork_01", p, q)
  <2>1. \A c \in Range(q) : /\ c.call \in {"printf", "write1", "exit"}
                            /\ PlainOK("fork_01", p, c)
                            /\ (Says(c) => c.text # ExitCode)
    BY <1>9
  <2> QED BY <1>7, <1>10, <1>11, <1>12, <2>1 DEF FailureOK
<1> QED BY <1>4, <1>9, <1>13

LEMMA Fork01Child ==
  Script("fork_01", "child", fork_01.child) /\ fork_01.child # <<>>
<1>1. fork_01.child = Written
  BY DEF fork_01, Written
<1>2. FailureOK("fork_01", "child", Written)
  BY WrittenFails
<1> QED BY <1>1, <1>2, FailureScript

LEMMA Fork01Parent ==
  /\ Script("fork_01", "parent", fork_01.parent) /\ fork_01.parent # <<>>
  /\ Has(fork_01.parent, "fork")
<1> DEFINE c == Fork("child", Written)
           q == Written
<1>1. c.call = "fork" /\ c.who = "child" /\ c.failure = q
  BY DEF Fork
<1>2. fork_01.parent = <<c>> \o q
  BY DEF fork_01, Written
<1> HIDE DEF c
<1>3. FailureOK("fork_01", "parent", q)
  BY WrittenFails
<1>4. Script("fork_01", "parent", q) /\ q # <<>>
  BY <1>3, FailureScript
<1>5. \A d \in Range(q) : d.call \in {"printf", "write1", "exit"}
  BY <1>3 DEF FailureOK
<1> HIDE DEF q
<1>6. CallOK("fork_01", "parent", c)
  BY <1>1, <1>3, ParentFacts DEF CallOK, PlainOK, Names, Says
<1>7. \A d \in Range(q) : MayPrecede("fork_01", "parent", c, d)
  BY <1>1, <1>5 DEF MayPrecede, SameLine, Says
<1>8. "fork_01" \notin Ordered
  BY DEF Ordered
<1>9. /\ Script("fork_01", "parent", <<c>> \o q) /\ <<c>> \o q # <<>>
      /\ Range(<<c>> \o q) = {c} \cup Range(q)
  <2>1. c.call = "fork"
    BY <1>1
  <2>2. Fits("fork_01", "parent", c, q)
    BY <2>1, <1>4, <1>6, <1>7, <1>8 DEF Fits
  <2> QED BY <2>2, FitsScript
<1>10. Has(<<c>> \o q, "fork")
  BY <1>1, <1>9 DEF Has
<1> QED BY <1>2, <1>9, <1>10

\* Every process of every program starts with a script; the processes are
\* those that a fork of the program may name.
Member(pr, p) ==
  p \in {"parent", "child"} \/ (p = "grandchild" /\ pr \in {"partA", "partB"})

LEMMA AllScripts ==
  ASSUME NEW pr \in DOMAIN Programs, NEW p, Member(pr, p)
  PROVE  /\ Script(pr, p, Programs[pr][p]) /\ Programs[pr][p] # <<>>
         /\ p = "parent" => Has(Programs[pr][p], "fork")
         /\ pr = "partB" => Has(Programs[pr][p], "read") /\ Has(Programs[pr][p], "write")
         /\ pr = "partB" /\ p = "child" => Has(Programs[pr][p], "fork")
         /\ pr = "partB" /\ p = "parent" => Has(Programs[pr][p], "pipe")
         /\ pr = "fork_text" /\ p = "child" => Has(Programs[pr][p], "increment")
<1>1. pr \in {"partA", "partB", "fork_test", "partA_fork", "fork_text", "fork_01"}
  BY DEF Programs
<1>2. CASE pr = "partA"
  <2>1. Programs[pr] = partA
    BY <1>2 DEF Programs
  <2>2. partA["parent"] = partA.parent /\ partA["child"] = partA.child
        /\ partA["grandchild"] = partA.grandchild
    OBVIOUS
  <2> QED BY <1>2, <2>1, <2>2, PartAParent, PartAChild, PartAGrandchild DEF Member
<1>3. CASE pr = "partB"
  <2>1. Programs[pr] = partB
    BY <1>3 DEF Programs
  <2> QED BY <1>3, <2>1, PartBParent, PartBChild, PartBGrandchild DEF Member
<1>4. CASE pr = "fork_test"
  <2>1. Programs[pr] = fork_test
    BY <1>4 DEF Programs
  <2> QED BY <1>4, <2>1, ForkTestParent, ForkTestChild DEF Member
<1>5. CASE pr = "partA_fork"
  <2>1. Programs[pr] = partA_fork
    BY <1>5 DEF Programs
  <2> QED BY <1>5, <2>1, PartAForkParent, PartAForkChild DEF Member
<1>6. CASE pr = "fork_text"
  <2>1. Programs[pr] = fork_text
    BY <1>6 DEF Programs
  <2> QED BY <1>6, <2>1, ForkTextParent, ForkTextChild DEF Member
<1>7. CASE pr = "fork_01"
  <2>1. Programs[pr] = fork_01
    BY <1>7 DEF Programs
  <2> QED BY <1>7, <2>1, Fork01Parent, Fork01Child DEF Member
<1> QED BY <1>1, <1>2, <1>3, <1>4, <1>5, <1>6, <1>7

-----------------------------------------------------------------------------
(* 3. What the processes have still to do *)

Born(p) == state[p] # "unborn"
Ended(p) == state[p] \in {"zombie", "reaped"}

\* Every process runs as long as it has calls to make; a process that has been
\* forked is not forked again; after a fork that failed there is none.
Family ==
  /\ program \in DOMAIN Programs /\ tty \in BOOLEAN /\ failed \in BOOLEAN
  /\ state \in [Procs -> {"unborn", "running", "zombie", "reaped"}]
  /\ todo = [p \in Procs |-> todo[p]]
  /\ \A p \in Procs : state[p] = "running" <=> todo[p] # <<>>
  /\ \A p \in Procs : Script(program, p, todo[p])
  /\ \A q \in DOMAIN Parent : Born(q) => Born(Parent[q]) /\ ~Has(todo[Parent[q]], "fork")
  /\ Born("parent")
  /\ failed => ~Born("grandchild") /\ \A p \in Procs : ~Has(todo[p], "fork")

\* What a step does to the processes and their calls.
Reaps(p) ==
  /\ Call(p).call = "wait"
  /\ \E c \in DOMAIN Parent :
       /\ Parent[c] = p /\ state[c] = "zombie"
       /\ state' = [state EXCEPT ![c] = "reaped"]

Advances(p) ==
  /\ Call(p).call \notin {"fork", "exit"}
  /\ \/ Reaps(p)
     \/ Call(p).call # "wait" /\ UNCHANGED state
  /\ todo' = [todo EXCEPT ![p] = Tail(@)]
  /\ UNCHANGED failed

Loops(p) == Call(p).call = "read" /\ UNCHANGED <<state, todo, failed>>

Forks(p) ==
  /\ Call(p).call = "fork"
  /\ state' = [state EXCEPT ![Call(p).who] = "running"]
  /\ todo' = [todo EXCEPT ![p] = Tail(@), ![Call(p).who] = Programs[program][Call(p).who]]
  /\ UNCHANGED failed

Fails(p) ==
  /\ Call(p).call = "fork"
  /\ todo' = [todo EXCEPT ![p] = Call(p).failure]
  /\ failed' = TRUE
  /\ UNCHANGED state

Dies(p) ==
  /\ Call(p).call \in {"exit", "write"}
  /\ state' = [state EXCEPT ![p] = "zombie"]
  /\ todo' = [todo EXCEPT ![p] = <<>>]
  /\ UNCHANGED failed

Moves(p) ==
  /\ state[p] = "running" /\ UNCHANGED <<program, tty>>
  /\ Advances(p) \/ Loops(p) \/ Forks(p) \/ Fails(p) \/ Dies(p)

LEMMA StepMoves ==
  ASSUME NEW p \in Procs, Step(p)
  PROVE  Moves(p)
<1>1. CASE printf(p)
  BY <1>1 DEF printf, Calls, Return_from, Moves, Advances, Call
<1>2. CASE endl(p)
  BY <1>2 DEF endl, Calls, Return_from, Moves, Advances, Call
<1>3. CASE write1(p)
  BY <1>3 DEF write1, Calls, Return_from, Moves, Advances, Call
<1>4. CASE increment(p)
  BY <1>4 DEF increment, Calls, Return_from, Moves, Advances, Call
<1>5. CASE scanf(p)
  BY <1>5 DEF scanf, Calls, Return_from, Moves, Advances, Call
<1>6. CASE fork(p)
  BY <1>6 DEF fork, Calls, Return_from, Moves, Forks, Fails, Call
<1>7. CASE exit(p)
  BY <1>7 DEF exit, Calls, End, Moves, Dies, Call
<1>8. CASE wait(p)
  BY <1>8 DEF wait, Calls, Return_from, Moves, Advances, Reaps, Call
<1>9. CASE makePipes(p)
  BY <1>9 DEF makePipes, Calls, Return_from, Moves, Advances, Call
<1>10. CASE close(p)
  BY <1>10 DEF close, Calls, Return_from, Moves, Advances, Call
<1>11. CASE write(p)
  BY <1>11 DEF write, Calls, Return_from, End, Moves, Advances, Dies, Call
<1>12. CASE read(p)
  BY <1>12 DEF read, Calls, Return_from, Moves, Advances, Loops, Call
<1> QED
  BY <1>1, <1>2, <1>3, <1>4, <1>5, <1>6, <1>7, <1>8, <1>9, <1>10, <1>11, <1>12
  DEF Step, Runs

LEMMA ScriptEmpty ==
  ASSUME NEW pr, NEW p
  PROVE  Script(pr, p, <<>>) /\ Range(<<>>) = {}
<1>1. Range(<<>>) = {}
  BY DEF Range
<1>2. <<>> \in Seq(Range(<<>>)) /\ Len(<<>>) = 0
  OBVIOUS
<1> QED BY <1>1, <1>2 DEF Script, Followed

LEMMA HasEmpty ==
  ASSUME NEW name
  PROVE  ~Has(<<>>, name)
BY ScriptEmpty DEF Has

\* The call a process is about to make, and what it has to do after it.
LEMMA CallFacts ==
  ASSUME Family, NEW p \in Procs, state[p] = "running"
  PROVE  /\ CallOK(program, p, Call(p))
         /\ Call(p) \in Range(todo[p])
         /\ \A d \in Range(todo[p]) :
              d = Call(p) \/ MayPrecede(program, p, Call(p), d)
         /\ Call(p).call = "exit" => Range(todo[p]) = {Call(p)}
         /\ Has(todo[p], Call(p).call)
<1> DEFINE q == todo[p]
<1>1. Script(program, p, q) /\ q # <<>>
  BY DEF Family
<1>2. Call(p) = Head(q)
  BY DEF Call
<1> HIDE DEF q
<1>3. /\ CallOK(program, p, Head(q))
      /\ Range(q) = {Head(q)} \cup Range(Tail(q))
      /\ \A d \in Range(Tail(q)) : MayPrecede(program, p, Head(q), d)
  BY <1>1, ScriptTail
<1>4. Head(q).call = "exit" => Range(q) = {Head(q)}
  BY <1>1, ScriptLast
<1>5. Head(q) \in Range(q) /\ Has(q, Head(q).call)
  BY <1>3 DEF Has
<1> QED BY <1>2, <1>3, <1>4, <1>5 DEF q

\* A call that is not exit leaves a script, from which only it is gone.
LEMMA TailOfTodo ==
  ASSUME Family, NEW p \in Procs, state[p] = "running", Call(p).call # "exit"
  PROVE  /\ Script(program, p, Tail(todo[p])) /\ Tail(todo[p]) # <<>>
         /\ Range(todo[p]) = {Call(p)} \cup Range(Tail(todo[p]))
         /\ \A d \in Range(Tail(todo[p])) : MayPrecede(program, p, Call(p), d)
<1> DEFINE q == todo[p]
<1>1. Script(program, p, q) /\ q # <<>>
  BY DEF Family
<1>2. Call(p) = Head(q)
  BY DEF Call
<1> HIDE DEF q
<1> QED BY <1>1, <1>2, ScriptTail DEF q

LEMMA TailHas ==
  ASSUME Family, NEW p \in Procs, state[p] = "running", Call(p).call # "exit", NEW name
  PROVE  /\ Has(todo[p], name) => name = Call(p).call \/ Has(Tail(todo[p]), name)
         /\ Has(Tail(todo[p]), name) => Has(todo[p], name)
         /\ Has(Tail(todo[p]), Call(p).call) =>
              Call(p).call \in {"printf", "endl", "write1", "close"}
BY TailOfTodo DEF Has, MayPrecede

\* A process that is to be forked does not exist yet.
LEMMA ForkFacts ==
  ASSUME Family, NEW p \in Procs, state[p] = "running", Call(p).call = "fork"
  PROVE  /\ Call(p).who \in DOMAIN Parent /\ Call(p).who \in Procs
         /\ Parent[Call(p).who] = p /\ Call(p).who # p
         /\ ~Born(Call(p).who) /\ todo[Call(p).who] = <<>>
         /\ Member(program, Call(p).who)
         /\ FailureOK(program, p, Call(p).failure)
         /\ ~Has(Tail(todo[p]), "fork") /\ ~failed
<1> DEFINE c == Call(p)
           q == c.who
<1>1. CallOK(program, p, c) /\ Has(todo[p], "fork") /\ ~Has(Tail(todo[p]), "fork")
  BY CallFacts, TailHas
<1>2. q \in DOMAIN Parent /\ Parent[q] = p /\ FailureOK(program, p, c.failure)
      /\ (p = "child" => program \in {"partA", "partB"})
  BY <1>1 DEF CallOK
<1> HIDE DEF c
<1>3. q \in Procs /\ q # p /\ Member(program, q)
  BY <1>2, ParentFacts DEF Procs, Member
<1>4. ~Born(q) /\ ~failed
  BY <1>1, <1>2 DEF Family
<1>5. todo[q] = <<>>
  BY <1>3, <1>4 DEF Family, Born
<1> QED BY <1>1, <1>2, <1>3, <1>4, <1>5 DEF c

\* A failure leads to no fork.
LEMMA FailureHas ==
  ASSUME NEW pr, NEW p, NEW f, FailureOK(pr, p, f), NEW name
  PROVE  Has(f, name) => name \in {"printf", "write1", "exit"}
BY DEF FailureOK, Has

LEMMA FamilyInit == Init => Family
<1> SUFFICES ASSUME Init PROVE Family
  OBVIOUS
<1>1. /\ program \in DOMAIN Programs /\ tty \in BOOLEAN /\ failed = FALSE
      /\ state = [p \in Procs |-> IF p = "parent" THEN "running" ELSE "unborn"]
      /\ todo = [p \in Procs |-> IF p = "parent" THEN Programs[program].parent ELSE <<>>]
  BY DEF Init
<1>2. "parent" \in Procs /\ Procs = {"parent", "child", "grandchild"}
  BY DEF Procs
<1>3. /\ Script(program, "parent", Programs[program]["parent"])
      /\ Programs[program]["parent"] # <<>>
  BY <1>1, AllScripts DEF Member
<1>4. /\ todo["parent"] = Programs[program]["parent"]
      /\ \A p \in Procs : p # "parent" => todo[p] = <<>>
  BY <1>1, <1>2
<1>5. \A p \in Procs : state[p] = "running" <=> todo[p] # <<>>
  BY <1>1, <1>3, <1>4
<1>6. \A p \in Procs : Script(program, p, todo[p])
  BY <1>3, <1>4, ScriptEmpty
<1>7. todo = [p \in Procs |-> todo[p]]
  BY <1>1
<1>8. \A q \in DOMAIN Parent : ~Born(q)
  BY <1>1, ParentFacts DEF Born, Procs
<1>9. Born("parent")
  BY <1>1, <1>2 DEF Born
<1>10. state \in [Procs -> {"unborn", "running", "zombie", "reaped"}]
  BY <1>1
<1> QED BY <1>1, <1>5, <1>6, <1>7, <1>8, <1>9, <1>10 DEF Family

LEMMA FamilyAdvances ==
  ASSUME Family, NEW p \in Procs, state[p] = "running", UNCHANGED <<program, tty>>,
         Advances(p)
  PROVE  Family'
<1>1. /\ Script(program, p, Tail(todo[p])) /\ Tail(todo[p]) # <<>>
  BY TailOfTodo DEF Advances
<1>2. /\ todo' = [q \in Procs |-> IF q = p THEN Tail(todo[p]) ELSE todo[q]]
      /\ failed' = failed
  BY DEF Advances, Family
<1>3. \A q \in Procs : \A name : Has(todo'[q], name) => Has(todo[q], name)
  BY <1>2, TailHas DEF Advances
<1>4. /\ state' \in [Procs -> {"unborn", "running", "zombie", "reaped"}]
      /\ \A q \in Procs : \/ state'[q] = state[q]
                          \/ state[q] = "zombie" /\ state'[q] = "reaped"
  <2>1. CASE Reaps(p)
    <3>1. PICK c \in DOMAIN Parent : state[c] = "zombie"
          /\ state' = [state EXCEPT ![c] = "reaped"]
      BY <2>1 DEF Reaps
    <3> QED BY <3>1 DEF Family
  <2>2. CASE UNCHANGED state
    BY <2>2 DEF Family
  <2> QED BY <2>1, <2>2 DEF Advances
<1>5. \A q \in Procs : (state'[q] = "running" <=> state[q] = "running")
      /\ (Born(q)' <=> Born(q))
  BY <1>4 DEF Born
<1>6. \A q \in Procs : state'[q] = "running" <=> todo'[q] # <<>>
  BY <1>1, <1>2, <1>5 DEF Family
<1>7. \A q \in Procs : Script(program', q, todo'[q])
  BY <1>1, <1>2 DEF Family
<1>8. ASSUME NEW q \in DOMAIN Parent, Born(q)'
      PROVE  Born(Parent[q])' /\ ~Has(todo'[Parent[q]], "fork")
  <2>1. q \in Procs /\ Parent[q] \in Procs
    BY ParentFacts DEF Procs
  <2>2. Born(Parent[q]) /\ ~Has(todo[Parent[q]], "fork")
    BY <1>5, <1>8, <2>1 DEF Family
  <2> QED BY <1>3, <1>5, <2>1, <2>2
<1>9. Born("parent")'
  BY <1>5 DEF Family, Procs
<1>10. failed' => ~Born("grandchild")' /\ \A q \in Procs : ~Has(todo'[q], "fork")
  BY <1>2, <1>3, <1>5 DEF Family, Procs
<1>11. program' \in DOMAIN Programs /\ tty' \in BOOLEAN /\ failed' \in BOOLEAN
  BY <1>2 DEF Family
<1>12. todo' = [q \in Procs |-> todo'[q]]
  BY <1>2
<1> QED BY <1>4, <1>6, <1>7, <1>8, <1>9, <1>10, <1>11, <1>12 DEF Family

LEMMA FamilyForks ==
  ASSUME Family, NEW p \in Procs, state[p] = "running", UNCHANGED <<program, tty>>,
         Forks(p)
  PROVE  Family'
<1> DEFINE k == Call(p).who
<1>1. /\ k \in DOMAIN Parent /\ k \in Procs /\ Parent[k] = p /\ k # p
      /\ ~Born(k) /\ Member(program, k)
      /\ ~Has(Tail(todo[p]), "fork") /\ ~failed
  BY ForkFacts DEF Forks
<1>2. /\ Script(program, p, Tail(todo[p])) /\ Tail(todo[p]) # <<>>
  BY TailOfTodo DEF Forks
<1>3. /\ Script(program, k, Programs[program][k]) /\ Programs[program][k] # <<>>
  BY <1>1, AllScripts DEF Family
<1>4. /\ todo' = [q \in Procs |-> IF q = k THEN Programs[program][k]
                                  ELSE IF q = p THEN Tail(todo[p]) ELSE todo[q]]
      /\ state' = [state EXCEPT ![k] = "running"]
      /\ failed' = failed
  BY <1>1 DEF Forks, Family
<1> HIDE DEF k
<1>5. \A q \in Procs : q # k => state'[q] = state[q]
  BY <1>4 DEF Family
<1>6. state'[k] = "running"
      /\ state' \in [Procs -> {"unborn", "running", "zombie", "reaped"}]
  BY <1>1, <1>4 DEF Family
<1>7. \A q \in Procs : state'[q] = "running" <=> todo'[q] # <<>>
  BY <1>1, <1>2, <1>3, <1>4, <1>5, <1>6 DEF Family
<1>8. \A q \in Procs : Script(program', q, todo'[q])
  BY <1>2, <1>3, <1>4 DEF Family
<1>9. ASSUME NEW q \in DOMAIN Parent, Born(q)'
      PROVE  Born(Parent[q])' /\ ~Has(todo'[Parent[q]], "fork")
  <2>1. q \in Procs /\ Parent[q] \in Procs
    BY ParentFacts DEF Procs
  <2>2. CASE q = k
    BY <1>1, <1>4, <1>5, <2>1, <2>2 DEF Born
  <2>3. CASE q # k
    <3>1. Born(q) /\ Born(Parent[q]) /\ ~Has(todo[Parent[q]], "fork")
      BY <1>5, <1>9, <2>1, <2>3 DEF Family, Born
    <3>2. Parent[q] # k
      BY <1>1, <3>1
    <3> QED BY <1>1, <1>4, <1>5, <2>1, <3>1, <3>2 DEF Born
  <2> QED BY <2>2, <2>3
<1>10. Born("parent")'
  BY <1>1, <1>5, ParentFacts DEF Family, Procs, Born
<1>11. program' \in DOMAIN Programs /\ tty' \in BOOLEAN /\ failed' = FALSE
  BY <1>1, <1>4 DEF Family
<1>12. todo' = [q \in Procs |-> todo'[q]]
  BY <1>4
<1> QED BY <1>6, <1>7, <1>8, <1>9, <1>10, <1>11, <1>12 DEF Family

LEMMA FamilyFails ==
  ASSUME Family, NEW p \in Procs, state[p] = "running", UNCHANGED <<program, tty>>,
         Fails(p)
  PROVE  Family'
<1> DEFINE k == Call(p).who
           f == Call(p).failure
<1>1. /\ k \in DOMAIN Parent /\ k \in Procs /\ Parent[k] = p
      /\ ~Born(k) /\ FailureOK(program, p, f)
  BY ForkFacts DEF Fails
<1>2. /\ todo' = [q \in Procs |-> IF q = p THEN f ELSE todo[q]]
      /\ state' = state /\ failed' = TRUE
  BY DEF Fails, Family
<1> HIDE DEF k, f
<1>3. Script(program, p, f) /\ f # <<>> /\ ~Has(f, "fork")
  BY <1>1, FailureScript, FailureHas
<1>4. \A q \in Procs : state'[q] = "running" <=> todo'[q] # <<>>
  BY <1>2, <1>3 DEF Family
<1>5. \A q \in Procs : Script(program', q, todo'[q])
  BY <1>2, <1>3 DEF Family
<1>6. ASSUME NEW q \in DOMAIN Parent, Born(q)'
      PROVE  Born(Parent[q])' /\ ~Has(todo'[Parent[q]], "fork")
  <2>1. q \in Procs /\ Parent[q] \in Procs
    BY ParentFacts DEF Procs
  <2> QED BY <1>2, <1>3, <1>6, <2>1 DEF Family, Born
<1>7. Born("parent")' /\ state' \in [Procs -> {"unborn", "running", "zombie", "reaped"}]
  BY <1>2 DEF Family, Born
<1>8. ~Born("grandchild")' /\ \A q \in Procs : ~Has(todo'[q], "fork")
  <2>1. CASE p = "parent"
    <3>1. k = "child"
      BY <1>1, <2>1, ParentFacts
    <3>2. ~Born("grandchild")
      BY <1>1, <3>1, ParentFacts DEF Family
    <3>3. todo["child"] = <<>> /\ todo["grandchild"] = <<>>
      BY <1>1, <3>1, <3>2 DEF Family, Born, Procs
    <3>4. \A q \in Procs : q = p \/ todo[q] = <<>>
      BY <2>1, <3>3 DEF Procs
    <3> QED BY <1>2, <1>3, <3>2, <3>4, HasEmpty DEF Born
  <2>2. CASE p = "child"
    <3>1. k = "grandchild"
      BY <1>1, <2>2, ParentFacts
    <3>2. todo["grandchild"] = <<>> /\ Born("child")
      BY <1>1, <2>2, <3>1 DEF Family, Born, Procs
    <3>3. ~Has(todo["parent"], "fork")
      BY <3>2, ParentFacts DEF Family
    <3>4. \A q \in Procs : q = p \/ ~Has(todo[q], "fork")
      BY <2>2, <3>2, <3>3, HasEmpty DEF Procs
    <3> QED BY <1>1, <1>2, <1>3, <3>1, <3>4 DEF Born
  <2> QED BY <1>1, <2>1, <2>2, ParentFacts
<1>9. program' \in DOMAIN Programs /\ tty' \in BOOLEAN
  BY DEF Family
<1>10. todo' = [q \in Procs |-> todo'[q]]
  BY <1>2
<1> QED BY <1>2, <1>4, <1>5, <1>6, <1>7, <1>8, <1>9, <1>10 DEF Family

LEMMA FamilyDies ==
  ASSUME Family, NEW p \in Procs, state[p] = "running", UNCHANGED <<program, tty>>,
         Dies(p)
  PROVE  Family'
<1>1. /\ todo' = [q \in Procs |-> IF q = p THEN <<>> ELSE todo[q]]
      /\ state' = [state EXCEPT ![p] = "zombie"] /\ failed' = failed
  BY DEF Dies, Family
<1>2. /\ \A q \in Procs : q # p => state'[q] = state[q]
      /\ state'[p] = "zombie"
      /\ state' \in [Procs -> {"unborn", "running", "zombie", "reaped"}]
  BY <1>1 DEF Family
<1>3. \A q \in Procs : \A name : Has(todo'[q], name) => Has(todo[q], name)
  BY <1>1, HasEmpty
<1>4. \A q \in Procs : Born(q)' <=> Born(q)
  BY <1>2 DEF Born
<1>5. \A q \in Procs : state'[q] = "running" <=> todo'[q] # <<>>
  BY <1>1, <1>2 DEF Family
<1>6. \A q \in Procs : Script(program', q, todo'[q])
  BY <1>1, ScriptEmpty DEF Family
<1>7. ASSUME NEW q \in DOMAIN Parent, Born(q)'
      PROVE  Born(Parent[q])' /\ ~Has(todo'[Parent[q]], "fork")
  <2>1. q \in Procs /\ Parent[q] \in Procs
    BY ParentFacts DEF Procs
  <2>2. Born(Parent[q]) /\ ~Has(todo[Parent[q]], "fork")
    BY <1>4, <1>7, <2>1 DEF Family
  <2> QED BY <1>3, <1>4, <2>1, <2>2
<1>8. Born("parent")'
  BY <1>4 DEF Family, Procs
<1>9. failed' => ~Born("grandchild")' /\ \A q \in Procs : ~Has(todo'[q], "fork")
  BY <1>1, <1>3, <1>4 DEF Family, Procs
<1>10. program' \in DOMAIN Programs /\ tty' \in BOOLEAN /\ failed' \in BOOLEAN
  BY <1>1 DEF Family
<1>11. todo' = [q \in Procs |-> todo'[q]]
  BY <1>1
<1> QED BY <1>2, <1>5, <1>6, <1>7, <1>8, <1>9, <1>10, <1>11 DEF Family

LEMMA FamilyStep ==
  ASSUME Family, NEW p \in Procs, Moves(p)
  PROVE  Family'
<1>1. CASE Loops(p)
  <2>1. UNCHANGED <<program, tty, state, todo, failed>>
    BY <1>1 DEF Moves, Loops
  <2> QED BY <2>1 DEF Family, Born
<1> QED
  BY <1>1, FamilyAdvances, FamilyForks, FamilyFails, FamilyDies DEF Moves

-----------------------------------------------------------------------------
(* 4. What the processes print *)

\* The line that the next call of p prints.
Line(p) ==
  [by    |-> p,
   text  |-> IF Says(Call(p)) THEN Call(p).text ELSE "This line",
   value |-> IF Says(Call(p)) THEN Shown(p, Call(p).text) ELSE Call(p).value]

\* What a step does to the lines.
Puts(p) ==
  /\ Says(Call(p)) /\ ~(tty /\ (Call(p).call = "endl" \/ Call(p).newline))
  /\ buffer' = [buffer EXCEPT ![p] = Append(buffer[p], Line(p))] /\ UNCHANGED output

Flushes(p) ==
  /\ Says(Call(p))
  /\ output' = output \o Append(buffer[p], Line(p))
  /\ buffer' = [buffer EXCEPT ![p] = <<>>]

Writes(p) ==
  /\ Call(p).call = "write1"
  /\ output' = Append(output, Line(p)) /\ UNCHANGED buffer

Exits(p) ==
  /\ Call(p).call = "exit" /\ Dies(p)
  /\ output' = output \o buffer[p]
  /\ buffer' = [buffer EXCEPT ![p] = <<>>]

Copies(p) ==
  /\ Forks(p)
  /\ buffer' = [buffer EXCEPT ![Call(p).who] = buffer[p]] /\ UNCHANGED output

Silent(p) ==
  /\ ~Says(Call(p)) /\ Call(p).call \notin {"write1", "exit"}
  /\ UNCHANGED <<buffer, output>>

Shows(p) ==
  Puts(p) \/ Flushes(p) \/ Writes(p) \/ Exits(p) \/ Copies(p) \/ (Silent(p) /\ ~Forks(p))

LEMMA StepShows ==
  ASSUME Family, NEW p \in Procs, Step(p)
  PROVE  Shows(p)
<1>1. CASE printf(p)
  <2>1. /\ Says(Call(p)) /\ Call(p).call = "printf"
        /\ Printed(p) = Append(buffer[p], Line(p))
    BY <1>1 DEF printf, Calls, Call, Says, Line, Printed
  <2>2. CASE tty /\ Call(p).newline
    BY <1>1, <2>1, <2>2 DEF printf, Flush, Flushes, Shows
  <2>3. CASE ~(tty /\ Call(p).newline)
    BY <1>1, <2>1, <2>3 DEF printf, Puts, Shows
  <2> QED BY <2>2, <2>3
<1>2. CASE endl(p)
  <2>1. Says(Call(p)) /\ Printed(p) = Append(buffer[p], Line(p))
    BY <1>2 DEF endl, Calls, Call, Says, Line, Printed
  <2> QED BY <1>2, <2>1 DEF endl, Flush, Flushes, Shows
<1>3. CASE write1(p)
  <2>1. ~Says(Call(p)) /\ Call(p).call = "write1"
    BY <1>3 DEF write1, Calls, Call, Says
  <2>2. Line(p) = [by |-> p, text |-> "This line", value |-> Call(p).value]
    BY <2>1 DEF Line
  <2> QED BY <1>3, <2>1, <2>2 DEF write1, Writes, Shows
<1>4. CASE increment(p)
  BY <1>4 DEF increment, Calls, Call, Says, Silent, Forks, Shows
<1>5. CASE scanf(p)
  BY <1>5 DEF scanf, Calls, Call, Says, Silent, Forks, Shows
<1>6. CASE fork(p)
  <2>1. Call(p).call = "fork" /\ ~Says(Call(p)) /\ state[p] = "running"
    BY <1>6 DEF fork, Calls, Call, Says
  <2>2. CASE failed' = TRUE /\ UNCHANGED <<state, buffer>>
    BY <1>6, <2>1, <2>2, ForkFacts DEF fork, Silent, Forks, Shows
  <2>3. CASE Forks(p) /\ buffer' = [buffer EXCEPT ![Call(p).who] = buffer[p]]
    BY <1>6, <2>1, <2>3 DEF fork, Copies, Shows
  <2> QED BY <1>6, <2>1, <2>2, <2>3 DEF fork, Forks, Call
<1>7. CASE exit(p)
  BY <1>7 DEF exit, Calls, Call, End, Flush, Dies, Exits, Shows
<1>8. CASE wait(p)
  BY <1>8 DEF wait, Calls, Call, Says, Silent, Forks, Shows
<1>9. CASE makePipes(p)
  BY <1>9 DEF makePipes, Calls, Call, Says, Silent, Forks, Shows
<1>10. CASE close(p)
  BY <1>10 DEF close, Calls, Call, Says, Silent, Forks, Shows
<1>11. CASE write(p)
  BY <1>11 DEF write, Calls, Call, Says, Silent, Forks, Shows
<1>12. CASE read(p)
  BY <1>12 DEF read, Calls, Call, Says, Silent, Forks, Shows
<1> QED
  BY <1>1, <1>2, <1>3, <1>4, <1>5, <1>6, <1>7, <1>8, <1>9, <1>10, <1>11, <1>12
  DEF Step, Runs

-----------------------------------------------------------------------------
(* 5. Types *)

Typed ==
  /\ buffer \in [Procs -> Seq(Lines)] /\ output \in Seq(Lines)
  /\ fds \in [Procs -> SUBSET Ends]
  /\ variable \in [Procs -> Int] /\ status \in [Procs -> Nat] /\ waited \in [Procs -> Nat]
  /\ pipe = [x \in Pipes |-> pipe[x]] /\ got = [p \in Procs |-> got[p]]

LEMMA TypedInit == Init => Typed
<1> SUFFICES ASSUME Init PROVE Typed
  OBVIOUS
<1>1. <<>> \in Seq(Lines)
  OBVIOUS
<1> QED BY <1>1 DEF Init, Typed

LEMMA StatusRange ==
  ASSUME NEW s \in Nat
  PROVE  WEXITSTATUS(s) \in Int
BY DEF WEXITSTATUS

LEMMA ShownInt ==
  ASSUME Typed, NEW p \in Procs, NEW text
  PROVE  Shown(p, text) \in Int
<1>1. WEXITSTATUS(waited[p]) \in Int
  BY StatusRange DEF Typed
<1>2. variable[p] \in Int /\ 0 \in Int
  BY DEF Typed
<1>3. CASE text = "PARENT: Child's exit code"
  BY <1>1, <1>3 DEF Shown
<1>4. CASE text = "Global variable"
  BY <1>2, <1>4 DEF Shown
<1>5. CASE text # "PARENT: Child's exit code" /\ text # "Global variable"
  BY <1>2, <1>5 DEF Shown
<1> QED BY <1>3, <1>4, <1>5

\* A printed line tells who printed it, what, and a number.
LEMMA LineFacts ==
  ASSUME Family, Typed, NEW p \in Procs, state[p] = "running",
         Says(Call(p)) \/ Call(p).call = "write1"
  PROVE  /\ Line(p) \in Lines /\ Line(p).by = p
         /\ Says(Call(p)) => /\ Line(p).text = Call(p).text
                             /\ Line(p).text # "This line"
                             /\ Line(p).value = Shown(p, Call(p).text)
         /\ ~Says(Call(p)) => /\ Line(p).text = "This line"
                              /\ Line(p).value = Call(p).value
<1>1. PlainOK(program, p, Call(p))
  BY CallFacts DEF CallOK
<1>2. Says(Call(p)) => Call(p).text \in Texts /\ Call(p).text # "This line"
  BY <1>1 DEF PlainOK
<1>3. Call(p).call = "write1" => Call(p).value \in Int
  BY <1>1 DEF PlainOK
<1>4. "This line" \in Texts
  BY DEF Texts
<1>5. Line(p).by = p
  BY DEF Line
<1>6. Line(p).text = IF Says(Call(p)) THEN Call(p).text ELSE "This line"
  BY DEF Line
<1>7. Line(p).value = IF Says(Call(p)) THEN Shown(p, Call(p).text) ELSE Call(p).value
  BY DEF Line
<1>8. Line(p).text \in Texts
  BY <1>2, <1>4, <1>6
<1>9. Line(p).value \in Int
  BY <1>3, <1>7, ShownInt
<1>10. Line(p) \in Lines
  BY <1>5, <1>8, <1>9 DEF Line, Lines
<1> QED BY <1>2, <1>5, <1>6, <1>7, <1>10

LEMMA LinesTyped ==
  ASSUME Family, Typed, NEW p \in Procs, state[p] = "running", Shows(p)
  PROVE  buffer' \in [Procs -> Seq(Lines)] /\ output' \in Seq(Lines)
<1>1. buffer \in [Procs -> Seq(Lines)] /\ output \in Seq(Lines) /\ buffer[p] \in Seq(Lines)
  BY DEF Typed
<1>2. Says(Call(p)) \/ Call(p).call = "write1" => Line(p) \in Lines
  BY LineFacts
<1>3. CASE Puts(p)
  <2>1. Append(buffer[p], Line(p)) \in Seq(Lines)
    BY <1>1, <1>2, <1>3 DEF Puts
  <2> QED BY <1>1, <1>3, <2>1 DEF Puts
<1>4. CASE Flushes(p)
  <2>1. Append(buffer[p], Line(p)) \in Seq(Lines)
    BY <1>1, <1>2, <1>4 DEF Flushes
  <2> QED BY <1>1, <1>4, <2>1 DEF Flushes
<1>5. CASE Writes(p)
  BY <1>1, <1>2, <1>5 DEF Writes
<1>6. CASE Exits(p)
  BY <1>1, <1>6 DEF Exits
<1>7. CASE Copies(p)
  BY <1>1, <1>7 DEF Copies
<1>8. CASE Silent(p)
  BY <1>1, <1>8 DEF Silent
<1> QED BY <1>3, <1>4, <1>5, <1>6, <1>7, <1>8 DEF Shows

LEMMA FilesTyped ==
  ASSUME Family, Typed, NEW p \in Procs, Step(p)
  PROVE  /\ fds' \in [Procs -> SUBSET Ends]
         /\ pipe' = [x \in Pipes |-> pipe'[x]] /\ got' = [q \in Procs |-> got'[q]]
<1>1. /\ fds \in [Procs -> SUBSET Ends] /\ fds[p] \in SUBSET Ends
      /\ pipe = [x \in Pipes |-> pipe[x]] /\ got = [q \in Procs |-> got[q]]
  BY DEF Typed
<1>2. CASE fork(p)
  BY <1>1, <1>2 DEF fork
<1>3. CASE exit(p)
  BY <1>1, <1>3 DEF exit, End
<1>4. CASE makePipes(p)
  BY <1>1, <1>4 DEF makePipes
<1>5. CASE close(p)
  BY <1>1, <1>5 DEF close
<1>6. CASE write(p)
  <2>1. fds' \in [Procs -> SUBSET Ends] /\ got' = got
    BY <1>1, <1>6 DEF write, End
  <2>2. \/ pipe' = [pipe EXCEPT ![Call(p).pipe] = @ \o Call(p).items]
        \/ pipe' = pipe
    BY <1>6 DEF write, End
  <2> QED BY <1>1, <2>1, <2>2
<1>7. CASE read(p)
  <2>1. fds' = fds
    BY <1>7 DEF read
  <2>2. \/ pipe' = [pipe EXCEPT ![Call(p).pipe] = Tail(@)]
        \/ pipe' = pipe
    BY <1>7 DEF read
  <2>3. \/ got' = [got EXCEPT ![p] = Append(@, Head(pipe[Call(p).pipe]))]
        \/ got' = got
    BY <1>7 DEF read
  <2> QED BY <1>1, <2>1, <2>2, <2>3
<1>8. CASE printf(p) \/ endl(p) \/ write1(p) \/ increment(p) \/ scanf(p) \/ wait(p)
  BY <1>1, <1>8 DEF printf, endl, write1, increment, scanf, wait, files
<1> QED BY <1>2, <1>3, <1>4, <1>5, <1>6, <1>7, <1>8 DEF Step, Runs

\* What a process may exit with.
LEMMA ExitValueInt ==
  ASSUME Family, Typed, NEW p \in Procs, state[p] = "running", Call(p).call = "exit"
  PROVE  ExitValue(p) \in Int
<1>1. Call(p).value \in {"variable", "one", "zero"}
  BY CallFacts DEF CallOK, PlainOK
<1>2. variable[p] \in Int
  BY DEF Typed
<1> QED BY <1>1, <1>2 DEF ExitValue

LEMMA MemoryTyped ==
  ASSUME Family, Typed, NEW p \in Procs, Step(p)
  PROVE  /\ variable' \in [Procs -> Int] /\ status' \in [Procs -> Nat]
         /\ waited' \in [Procs -> Nat]
<1>1. variable \in [Procs -> Int] /\ status \in [Procs -> Nat] /\ waited \in [Procs -> Nat]
  BY DEF Typed
<1>2. CASE increment(p)
  BY <1>1, <1>2 DEF increment
<1>3. CASE scanf(p)
  BY <1>1, <1>3, EnteredAssumption DEF scanf
<1>4. CASE fork(p)
  BY <1>1, <1>4 DEF fork
<1>5. CASE exit(p)
  <2>1. ExitValue(p) \in Int
    BY <1>5, ExitValueInt DEF exit, Calls, Call
  <2>2. 256 * (ExitValue(p) % 256) \in Nat
    BY <2>1
  <2>3. /\ status' = [status EXCEPT ![p] = 256 * (ExitValue(p) % 256)]
        /\ variable' = variable /\ waited' = waited
    BY <1>5 DEF exit, End
  <2> QED BY <1>1, <2>2, <2>3
<1>6. CASE wait(p)
  <2>1. PICK c \in DOMAIN Parent : waited' = [waited EXCEPT ![p] = status[c]]
    BY <1>6 DEF wait
  <2>2. c \in Procs
    BY ParentFacts DEF Procs
  <2> QED BY <1>1, <1>6, <2>1, <2>2 DEF wait
<1>7. CASE write(p)
  <2>1. variable' = variable /\ waited' = waited
    BY <1>7 DEF write, End, memory
  <2>2. status' = status \/ status' = [status EXCEPT ![p] = 13]
    BY <1>7 DEF write, End, memory, SIGPIPE
  <2> QED BY <1>1, <2>1, <2>2
<1>8. CASE printf(p) \/ endl(p) \/ write1(p) \/ makePipes(p) \/ close(p) \/ read(p)
  BY <1>1, <1>8 DEF printf, endl, write1, makePipes, close, read, memory
<1> QED BY <1>2, <1>3, <1>4, <1>5, <1>6, <1>7, <1>8 DEF Step, Runs

LEMMA StepRuns ==
  ASSUME NEW p \in Procs, Step(p)
  PROVE  state[p] = "running"
BY StepMoves DEF Moves

LEMMA TypedStep ==
  ASSUME Family, Typed, NEW p \in Procs, Step(p)
  PROVE  Typed'
BY StepRuns, StepShows, LinesTyped, FilesTyped, MemoryTyped DEF Typed

Kept == Family /\ Typed

LEMMA KeptStays == Spec => []Kept
<1>1. Init => Kept
  BY FamilyInit, TypedInit DEF Kept
<1>2. Kept /\ [Next]_vars => Kept'
  <2> SUFFICES ASSUME Kept, [Next]_vars PROVE Kept'
    OBVIOUS
  <2>1. ASSUME NEW p \in Procs, Step(p)
        PROVE  Kept'
    BY <2>1, StepMoves, FamilyStep, TypedStep DEF Kept
  <2>2. CASE UNCHANGED vars
    BY <2>2 DEF Kept, Family, Typed, vars, files, memory, Born
  <2> QED BY <2>1, <2>2 DEF Next
<1> QED BY <1>1, <1>2, PTL DEF Spec

(* The invariant that gives every variable of the process exercises its    *)
(* type, and a running process a call to make: no process of the programs  *)
(* comes to the end of main without an exit.                               *)
THEOREM ProcTypeCorrect == Spec => []ProcTypeOK
<1>1. Kept => ProcTypeOK
  BY DEF Kept, Family, Typed, ProcTypeOK
<1> QED BY <1>1, KeptStays, PTL

-----------------------------------------------------------------------------
(* 6. What a step leaves as it was *)

LEMMA TodoStep ==
  ASSUME Family, NEW p \in Procs, Moves(p)
  PROVE  /\ \A q \in Procs :
              q # p /\ ~(Forks(p) /\ q = Call(p).who) => todo'[q] = todo[q]
         /\ Advances(p) \/ Forks(p) => todo'[p] = Tail(todo[p])
         /\ Loops(p) => todo'[p] = todo[p]
         /\ Forks(p) => todo'[Call(p).who] = Programs[program][Call(p).who]
         /\ Fails(p) => todo'[p] = Call(p).failure
         /\ Dies(p) => todo'[p] = <<>>
<1>1. todo = [q \in Procs |-> todo[q]]
  BY DEF Family
<1>2. CASE Advances(p)
  BY <1>1, <1>2 DEF Advances, Loops, Forks, Fails, Dies
<1>3. CASE Loops(p)
  BY <1>1, <1>3 DEF Advances, Loops, Forks, Fails, Dies
<1>4. CASE Forks(p)
  <2>1. Call(p).who \in Procs /\ Call(p).who # p
    BY <1>4, ForkFacts DEF Forks, Moves
  <2>2. ~Advances(p) /\ ~Loops(p) /\ ~Dies(p)
    BY <1>4 DEF Forks, Advances, Loops, Dies
  <2>3. Call(p).who \in Procs /\ ~Born(Call(p).who)
    BY <1>4, ForkFacts DEF Forks, Moves
  <2>4. state'[Call(p).who] = "running"
    BY <1>4, <2>1 DEF Forks, Family
  <2>5. ~Fails(p)
    BY <2>3, <2>4 DEF Fails, Born
  <2>6. /\ todo'[p] = Tail(todo[p])
        /\ todo'[Call(p).who] = Programs[program][Call(p).who]
        /\ \A q \in Procs : q # p /\ q # Call(p).who => todo'[q] = todo[q]
    BY <1>1, <1>4, <2>1 DEF Forks
  <2> QED BY <1>4, <2>2, <2>5, <2>6
<1>5. CASE Fails(p)
  <2>1. ~Advances(p) /\ ~Loops(p) /\ ~Dies(p)
    BY <1>5 DEF Fails, Advances, Loops, Dies
  <2>2. Call(p).who \in Procs /\ ~Born(Call(p).who)
    BY <1>5, ForkFacts DEF Fails, Moves
  <2>3. ~Forks(p)
    BY <1>5, <2>2 DEF Forks, Fails, Born, Family
  <2>4. /\ todo'[p] = Call(p).failure
        /\ \A q \in Procs : q # p => todo'[q] = todo[q]
    BY <1>1, <1>5 DEF Fails
  <2> QED BY <2>1, <2>3, <2>4
<1>6. CASE Dies(p)
  <2>1. ~Forks(p) /\ ~Fails(p) /\ ~Loops(p)
    BY <1>6 DEF Dies, Forks, Fails, Loops
  <2>2. ~Advances(p)
    <3>1. state'[p] = "zombie" /\ state[p] = "running" /\ Call(p).call # "wait"
      BY <1>6 DEF Dies, Moves, Family
    <3> QED BY <3>1 DEF Advances, Reaps
  <2>3. /\ todo'[p] = <<>>
        /\ \A q \in Procs : q # p => todo'[q] = todo[q]
    BY <1>1, <1>6 DEF Dies
  <2> QED BY <2>1, <2>2, <2>3
<1> QED BY <1>2, <1>3, <1>4, <1>5, <1>6 DEF Moves

\* Where the calls come from that a process has still to make after a step.
LEMMA TodoRange ==
  ASSUME Family, NEW p \in Procs, Moves(p), NEW q \in Procs, NEW d \in Range(todo'[q])
  PROVE  \/ d \in Range(todo[q])
         \/ Fails(p) /\ q = p /\ d \in Range(Call(p).failure)
         \/ Forks(p) /\ q = Call(p).who /\ d \in Range(Programs[program][q])
<1>1. CASE q # p /\ ~(Forks(p) /\ q = Call(p).who)
  BY <1>1, TodoStep
<1>2. CASE q # p /\ Forks(p) /\ q = Call(p).who
  BY <1>2, TodoStep
<1>3. CASE q = p /\ (Advances(p) \/ Forks(p))
  <2>1. todo'[p] = Tail(todo[p]) /\ Call(p).call # "exit" /\ state[p] = "running"
    BY <1>3, TodoStep DEF Advances, Forks, Moves
  <2> QED BY <1>3, <2>1, TailOfTodo
<1>4. CASE q = p /\ Loops(p)
  BY <1>4, TodoStep
<1>5. CASE q = p /\ Fails(p)
  BY <1>5, TodoStep
<1>6. CASE q = p /\ Dies(p)
  BY <1>6, TodoStep, ScriptEmpty
<1> QED BY <1>1, <1>2, <1>3, <1>4, <1>5, <1>6 DEF Moves

LEMMA StateStep ==
  ASSUME Family, NEW p \in Procs, Moves(p), NEW q \in Procs
  PROVE  \/ state'[q] = state[q]
         \/ Forks(p) /\ q = Call(p).who /\ state'[q] = "running"
         \/ Dies(p) /\ q = p /\ state'[q] = "zombie"
         \/ /\ Advances(p) /\ Call(p).call = "wait"
            /\ q \in DOMAIN Parent /\ Parent[q] = p
            /\ state[q] = "zombie" /\ state'[q] = "reaped"
<1>1. state = [r \in Procs |-> state[r]]
  BY DEF Family
<1>2. CASE Advances(p)
  BY <1>1, <1>2 DEF Advances, Reaps
<1>3. CASE Loops(p) \/ Fails(p)
  BY <1>3 DEF Loops, Fails
<1>4. CASE Forks(p)
  BY <1>1, <1>4 DEF Forks
<1>5. CASE Dies(p)
  BY <1>1, <1>5 DEF Dies
<1> QED BY <1>2, <1>3, <1>4, <1>5 DEF Moves

\* Once born, a process stays born; once ended, it does nothing more.
LEMMA StaysEnded ==
  ASSUME Family, NEW p \in Procs, Moves(p), NEW q \in Procs
  PROVE  /\ Born(q) => Born(q)'
         /\ Ended(q) => Ended(q)' /\ q # p
         /\ state[q] = "reaped" => state'[q] = "reaped"
         /\ Ended(q)' => Ended(q) \/ (Dies(p) /\ q = p)
         /\ Born(q)' => Born(q) \/ (Forks(p) /\ q = Call(p).who)
<1>1. Forks(p) => ~Born(Call(p).who)
  BY ForkFacts DEF Forks, Moves
<1>2. state[p] = "running"
  BY DEF Moves
<1> QED BY <1>1, <1>2, StateStep DEF Born, Ended

LEMMA VariableStep ==
  ASSUME Family, Typed, NEW p \in Procs, Step(p)
  PROVE  /\ \A q \in Procs : q # p /\ ~(Forks(p) /\ q = Call(p).who) =>
                               variable'[q] = variable[q]
         /\ Call(p).call \notin {"increment", "scanf"} => variable'[p] = variable[p]
         /\ Call(p).call = "increment" => variable'[p] = variable[p] + 1
         /\ Forks(p) => variable'[Call(p).who] = variable[p]
<1>1. variable = [q \in Procs |-> variable[q]] /\ state[p] = "running"
  BY StepRuns DEF Typed
<1>2. CASE increment(p)
  BY <1>1, <1>2 DEF increment, Calls, Call, Forks
<1>3. CASE scanf(p)
  BY <1>1, <1>3 DEF scanf, Calls, Call, Forks
<1>4. CASE fork(p)
  <2>1. Call(p).call = "fork"
    BY <1>4 DEF fork, Calls, Call
  <2>2. Call(p).who \in Procs /\ Call(p).who # p /\ ~Born(Call(p).who)
    BY <1>1, <2>1, ForkFacts
  <2>3. CASE variable' = [variable EXCEPT ![Call(p).who] = variable[p]] /\ Forks(p)
    BY <1>1, <2>1, <2>2, <2>3
  <2>4. CASE variable' = variable /\ state' = state
    <3>1. ~Forks(p)
      BY <2>2, <2>4 DEF Forks, Born, Family
    <3> QED BY <2>1, <2>4, <3>1
  <2> QED BY <1>4, <2>1, <2>3, <2>4 DEF fork, Forks, Call
<1>5. CASE printf(p) \/ endl(p) \/ write1(p) \/ exit(p) \/ wait(p) \/ makePipes(p)
           \/ close(p) \/ write(p) \/ read(p)
  <2>1. variable' = variable
    BY <1>5 DEF printf, endl, write1, exit, wait, makePipes, close, write, read, End, memory
  <2>2. Call(p).call \notin {"increment", "fork"}
    BY <1>5 DEF printf, endl, write1, exit, wait, makePipes, close, write, read, Calls, Call
  <2> QED BY <2>1, <2>2 DEF Forks
<1> QED BY <1>2, <1>3, <1>4, <1>5 DEF Step, Runs

LEMMA StatusStep ==
  ASSUME Family, Typed, NEW p \in Procs, Step(p)
  PROVE  /\ \A q \in Procs : q # p => status'[q] = status[q]
         /\ Call(p).call = "exit" => status'[p] = 256 * (ExitValue(p) % 256)
<1>1. status = [q \in Procs |-> status[q]]
  BY DEF Typed
<1>2. CASE exit(p)
  BY <1>1, <1>2 DEF exit, End
<1>3. CASE write(p)
  <2>1. Call(p).call = "write"
    BY <1>3 DEF write, Calls, Call
  <2>2. status' = status \/ status' = [status EXCEPT ![p] = SIGPIPE]
    BY <1>3 DEF write, End, memory
  <2> QED BY <1>1, <2>1, <2>2
<1>4. CASE printf(p) \/ endl(p) \/ write1(p) \/ increment(p) \/ scanf(p) \/ fork(p)
           \/ wait(p) \/ makePipes(p) \/ close(p) \/ read(p)
  <2>1. status' = status
    BY <1>4 DEF printf, endl, write1, increment, scanf, fork, wait, makePipes, close, read,
       memory
  <2>2. Call(p).call # "exit"
    BY <1>4 DEF printf, endl, write1, increment, scanf, fork, wait, makePipes, close, read,
                Calls, Call
  <2> QED BY <2>1, <2>2
<1> QED BY <1>2, <1>3, <1>4 DEF Step, Runs

LEMMA WaitedStep ==
  ASSUME Family, Typed, NEW p \in Procs, Step(p)
  PROVE  /\ \A q \in Procs : q # p => waited'[q] = waited[q]
         /\ Call(p).call # "wait" => waited'[p] = waited[p]
         /\ Call(p).call = "wait" =>
              \E c \in DOMAIN Parent :
                /\ Parent[c] = p /\ state'[c] = "reaped" /\ waited'[p] = status[c]
<1>1. waited = [q \in Procs |-> waited[q]] /\ state = [q \in Procs |-> state[q]]
  BY DEF Typed, Family
<1>2. CASE wait(p)
  <2>1. Call(p).call = "wait"
    BY <1>2 DEF wait, Calls, Call
  <2>2. PICK c \in DOMAIN Parent : /\ Parent[c] = p
                                   /\ state' = [state EXCEPT ![c] = "reaped"]
                                   /\ waited' = [waited EXCEPT ![p] = status[c]]
    BY <1>2 DEF wait
  <2>3. c \in Procs
    BY ParentFacts DEF Procs
  <2>4. state'[c] = "reaped" /\ waited'[p] = status[c]
    BY <1>1, <2>2, <2>3
  <2>5. \A q \in Procs : q # p => waited'[q] = waited[q]
    BY <1>1, <2>2
  <2> QED BY <2>1, <2>2, <2>4, <2>5
<1>3. CASE printf(p) \/ endl(p) \/ write1(p) \/ increment(p) \/ scanf(p) \/ fork(p)
           \/ exit(p) \/ makePipes(p) \/ close(p) \/ write(p) \/ read(p)
  <2>1. waited' = waited
    BY <1>3 DEF printf, endl, write1, increment, scanf, fork, exit, makePipes, close, write,
                read, End, memory
  <2>2. Call(p).call # "wait"
    BY <1>3 DEF printf, endl, write1, increment, scanf, fork, exit, makePipes, close, write,
                read, Calls, Call
  <2> QED BY <2>1, <2>2
<1> QED BY <1>2, <1>3 DEF Step, Runs

-----------------------------------------------------------------------------
(* 7. The values shown *)

AllLines == Range(output) \cup UNION {Range(buffer[p]) : p \in Procs}

\* Only the next call makes a line that is not there yet.
LEMMA RangeAppend ==
  ASSUME NEW S, NEW q \in Seq(S), NEW x
  PROVE  /\ Range(Append(q, x)) = Range(q) \cup {x}
         /\ Len(Append(q, x)) = Len(q) + 1
         /\ \A i \in 1..Len(q) : Append(q, x)[i] = q[i]
         /\ Append(q, x)[Len(q) + 1] = x
<1>1. /\ Len(Append(q, x)) = Len(q) + 1 /\ Len(q) \in Nat
      /\ DOMAIN Append(q, x) = 1..(Len(q) + 1) /\ DOMAIN q = 1..Len(q)
      /\ \A i \in 1..Len(q) : Append(q, x)[i] = q[i]
      /\ Append(q, x)[Len(q) + 1] = x
  OBVIOUS
<1> DEFINE r == Append(q, x)
<1>2. /\ DOMAIN r = 1..(Len(q) + 1) /\ Len(q) \in Nat /\ DOMAIN q = 1..Len(q)
      /\ \A i \in 1..Len(q) : r[i] = q[i]
      /\ r[Len(q) + 1] = x
  BY <1>1
<1> HIDE DEF r
<1>3. Range(r) = Range(q) \cup {x}
  BY <1>2 DEF Range
<1> QED BY <1>1, <1>3 DEF r

LEMMA RangeJoin ==
  ASSUME NEW S, NEW q \in Seq(S), NEW r \in Seq(S)
  PROVE  /\ Range(q \o r) = Range(q) \cup Range(r)
         /\ Len(q \o r) = Len(q) + Len(r)
         /\ \A i \in 1..Len(q) : (q \o r)[i] = q[i]
         /\ \A i \in 1..Len(r) : (q \o r)[Len(q) + i] = r[i]
<1> DEFINE t == q \o r
<1>1. /\ DOMAIN t = 1..(Len(q) + Len(r)) /\ DOMAIN q = 1..Len(q) /\ DOMAIN r = 1..Len(r)
      /\ Len(q) \in Nat /\ Len(r) \in Nat /\ Len(t) = Len(q) + Len(r)
      /\ \A i \in 1..(Len(q) + Len(r)) : t[i] = IF i <= Len(q) THEN q[i] ELSE r[i - Len(q)]
  OBVIOUS
<1> HIDE DEF t
<1>2. /\ \A i \in 1..Len(q) : t[i] = q[i]
      /\ \A i \in 1..Len(r) : t[Len(q) + i] = r[i]
  BY <1>1
<1>3. \A i \in DOMAIN t : t[i] \in Range(q) \cup Range(r)
  <2> SUFFICES ASSUME NEW i \in DOMAIN t PROVE t[i] \in Range(q) \cup Range(r)
    OBVIOUS
  <2>1. CASE i <= Len(q)
    BY <1>1, <2>1 DEF Range
  <2>2. CASE ~(i <= Len(q))
    <3>1. i - Len(q) \in DOMAIN r /\ t[i] = r[i - Len(q)]
      BY <1>1, <2>2
    <3> QED BY <3>1 DEF Range
  <2> QED BY <2>1, <2>2
<1>4. \A i \in DOMAIN q : q[i] \in Range(t)
  <2> SUFFICES ASSUME NEW i \in DOMAIN q PROVE q[i] \in Range(t)
    OBVIOUS
  <2>1. i \in DOMAIN t /\ t[i] = q[i]
    BY <1>1
  <2> QED BY <2>1 DEF Range
<1>5. \A i \in DOMAIN r : r[i] \in Range(t)
  <2> SUFFICES ASSUME NEW i \in DOMAIN r PROVE r[i] \in Range(t)
    OBVIOUS
  <2>1. Len(q) + i \in DOMAIN t /\ t[Len(q) + i] = r[i]
    BY <1>1, <1>2
  <2> QED BY <2>1 DEF Range
<1>6. Range(t) = Range(q) \cup Range(r)
  BY <1>3, <1>4, <1>5 DEF Range
<1> QED BY <1>1, <1>2, <1>6 DEF t

\* The ranges of what is printed, process by process.
LEMMA ShowsRanges ==
  ASSUME Family, Typed, NEW p \in Procs, state[p] = "running", Shows(p)
  PROVE  /\ Range(output') \subseteq Range(output) \cup Range(buffer[p]) \cup
              (IF Says(Call(p)) \/ Call(p).call = "write1" THEN {Line(p)} ELSE {})
         /\ Range(buffer'[p]) \subseteq Range(buffer[p]) \cup
              (IF Says(Call(p)) THEN {Line(p)} ELSE {})
         /\ \A q \in Procs : q # p =>
              buffer'[q] = IF Forks(p) /\ q = Call(p).who THEN buffer[p] ELSE buffer[q]
<1>1. /\ buffer \in [Procs -> Seq(Lines)] /\ output \in Seq(Lines)
         /\ buffer[p] \in Seq(Lines)
  BY DEF Typed
<1>2. Says(Call(p)) \/ Call(p).call = "write1" => Line(p) \in Lines
  BY LineFacts
<1>3. Range(<<>>) = {}
  BY ScriptEmpty
<1>4. Forks(p) => Call(p).call = "fork" /\ ~Says(Call(p))
  BY DEF Forks, Says
<1>5. CASE Puts(p)
  <2>1. Range(Append(buffer[p], Line(p))) = Range(buffer[p]) \cup {Line(p)}
    BY <1>1, RangeAppend
  <2>2. buffer'[p] = Append(buffer[p], Line(p)) /\ output' = output /\ Says(Call(p))
    BY <1>1, <1>5 DEF Puts
  <2>3. \A q \in Procs : q # p => buffer'[q] = buffer[q]
    BY <1>1, <1>5 DEF Puts
  <2> QED BY <1>4, <2>1, <2>2, <2>3
<1>6. CASE Flushes(p)
  <2>1. /\ Range(Append(buffer[p], Line(p))) = Range(buffer[p]) \cup {Line(p)}
        /\ Append(buffer[p], Line(p)) \in Seq(Lines) /\ Says(Call(p))
    BY <1>1, <1>2, <1>6, RangeAppend DEF Flushes
  <2>2. output' = output \o Append(buffer[p], Line(p)) /\ buffer'[p] = <<>>
    BY <1>1, <1>6 DEF Flushes
  <2>3. \A q \in Procs : q # p => buffer'[q] = buffer[q]
    BY <1>1, <1>6 DEF Flushes
  <2>4. Range(output') = Range(output) \cup (Range(buffer[p]) \cup {Line(p)})
    <3> DEFINE r == Append(buffer[p], Line(p))
    <3>1. r \in Seq(Lines) /\ Range(r) = Range(buffer[p]) \cup {Line(p)}
          /\ output' = output \o r
      BY <2>1, <2>2
    <3> HIDE DEF r
    <3>2. Range(output \o r) = Range(output) \cup Range(r)
      BY <1>1, <3>1, RangeJoin
    <3> QED BY <3>1, <3>2
  <2>5. Range(output') \subseteq Range(output) \cup Range(buffer[p]) \cup {Line(p)}
    BY <2>4
  <2>6. Range(buffer'[p]) = {}
    BY <1>3, <2>2
  <2>7. ~Forks(p) /\ Says(Call(p))
    BY <1>4, <2>1
  <2> QED BY <2>3, <2>5, <2>6, <2>7
<1>7. CASE Writes(p)
  <2>1. Range(output') = Range(output) \cup {Line(p)}
    BY <1>1, <1>7, RangeAppend DEF Writes
  <2> QED BY <1>4, <1>7, <2>1 DEF Writes, Forks
<1>8. CASE Exits(p)
  <2>1. output' = output \o buffer[p] /\ buffer'[p] = <<>>
    BY <1>1, <1>8 DEF Exits
  <2>2. Range(output') = Range(output) \cup Range(buffer[p])
    BY <1>1, <2>1, RangeJoin
  <2>3. \A q \in Procs : q # p => buffer'[q] = buffer[q]
    BY <1>1, <1>8 DEF Exits
  <2>4. Call(p).call = "exit"
    BY <1>8 DEF Exits
  <2> QED BY <1>3, <1>4, <2>1, <2>2, <2>3, <2>4
<1>9. CASE Copies(p)
  <2>1. Call(p).who \in Procs /\ Call(p).who # p /\ Forks(p)
    BY <1>9, ForkFacts DEF Copies, Forks
  <2>2. /\ buffer'[p] = buffer[p] /\ output' = output
        /\ \A q \in Procs : q # p =>
             buffer'[q] = IF q = Call(p).who THEN buffer[p] ELSE buffer[q]
    BY <1>1, <1>9, <2>1 DEF Copies
  <2> QED BY <2>1, <2>2
<1>10. CASE Silent(p) /\ ~Forks(p)
  BY <1>10 DEF Silent
<1> QED BY <1>5, <1>6, <1>7, <1>8, <1>9, <1>10 DEF Shows

LEMMA NewLine ==
  ASSUME Family, Typed, NEW p \in Procs, state[p] = "running", Shows(p),
         NEW l \in AllLines'
  PROVE  \/ l \in AllLines
         \/ l = Line(p) /\ (Says(Call(p)) \/ Call(p).call = "write1")
<1>1. /\ Range(output') \subseteq AllLines \cup
           (IF Says(Call(p)) \/ Call(p).call = "write1" THEN {Line(p)} ELSE {})
  BY ShowsRanges DEF AllLines
<1>2. ASSUME NEW q \in Procs
      PROVE  Range(buffer'[q]) \subseteq AllLines \cup
               (IF Says(Call(p)) THEN {Line(p)} ELSE {})
  <2>1. CASE q = p
    BY <2>1, ShowsRanges DEF AllLines
  <2>2. CASE q # p
    <3>1. buffer'[q] = buffer[p] \/ buffer'[q] = buffer[q]
      BY <2>2, ShowsRanges
    <3> QED BY <3>1 DEF AllLines
  <2> QED BY <2>1, <2>2
<1>3. l \in Range(output') \/ \E q \in Procs : l \in Range(buffer'[q])
  BY DEF AllLines
<1> QED BY <1>1, <1>2, <1>3

\* The parent of fork_test.c prints the exit status after wait.
CodeLater ==
  program = "fork_test" /\
  (\E d \in Range(todo["parent"]) : Says(d) /\ d.text = ExitCode) =>
    Has(todo["parent"], "wait") \/ state["child"] = "reaped"

\* The status of an ended child, and what wait hands on of it.
CodeKept ==
  /\ program = "fork_test" /\ Ended("child") =>
       status["child"] = 256 * (variable["child"] % 256)
  /\ state["child"] = "reaped" => waited["parent"] = status["child"]

CodeShown ==
  \A l \in AllLines : l.text = ExitCode =>
    /\ program = "fork_test" /\ state["child"] = "reaped"
    /\ l.value = variable["child"] % 256

\* The two copies of globalVariable.
GlobalKept ==
  program = "fork_text" =>
    /\ variable["parent"] = 2
    /\ Born("child") => variable["child"] = IF Has(todo["child"], "increment") THEN 2 ELSE 3

GlobalShown ==
  \A l \in AllLines : l.text = Global => l.value = IF l.by = "child" THEN 3 ELSE 2

LEMMA CodeRead ==
  ASSUME NEW v \in Int
  PROVE  WEXITSTATUS(256 * (v % 256)) = v % 256
<1> DEFINE m == v % 256
<1>1. m \in 0..255
  OBVIOUS
<1> HIDE DEF m
<1>2. (256 * m) \div 256 = m
  BY <1>1
<1>3. m % 256 = m
  BY <1>1
<1> QED BY <1>2, <1>3 DEF WEXITSTATUS, m

LEMMA CodeLaterStep ==
  ASSUME Family, CodeLater, NEW p \in Procs, Moves(p)
  PROVE  CodeLater'
<1> SUFFICES ASSUME program = "fork_test",
                    NEW d \in Range(todo'["parent"]), Says(d), d.text = ExitCode
             PROVE  Has(todo'["parent"], "wait") \/ state'["child"] = "reaped"
  BY DEF CodeLater, Moves
<1>1. "parent" \in Procs /\ "child" \in Procs /\ state[p] = "running"
  BY DEF Procs, Moves
<1>2. ~(Forks(p) /\ "parent" = Call(p).who)
  BY <1>1, ForkFacts, ParentFacts DEF Forks
<1>3. ~(Fails(p) /\ p = "parent" /\ d \in Range(Call(p).failure))
  BY <1>1, ForkFacts DEF Fails, FailureOK
<1>4. d \in Range(todo["parent"])
  BY <1>1, <1>2, <1>3, TodoRange
<1>5. Has(todo["parent"], "wait") \/ state["child"] = "reaped"
  BY <1>4 DEF CodeLater
<1>6. CASE state["child"] = "reaped"
  BY <1>1, <1>6, StaysEnded
<1>7. CASE p # "parent"
  BY <1>1, <1>2, <1>5, <1>6, <1>7, TodoStep
<1>8. CASE p = "parent" /\ (Advances(p) \/ Forks(p)) /\ Has(todo["parent"], "wait")
  <2>1. todo'[p] = Tail(todo[p]) /\ Call(p).call # "exit"
    BY <1>8, TodoStep DEF Advances, Forks
  <2>2. CASE Call(p).call # "wait"
    BY <1>1, <1>8, <2>1, <2>2, TailHas
  <2>3. CASE Call(p).call = "wait"
    <3>1. Reaps(p)
      BY <1>8, <2>3 DEF Advances, Forks
    <3>2. PICK c \in DOMAIN Parent : Parent[c] = "parent"
          /\ state' = [state EXCEPT ![c] = "reaped"]
      BY <1>8, <3>1 DEF Reaps
    <3>3. c = "child"
      BY <3>2, ParentFacts
    <3> QED BY <1>1, <3>2, <3>3 DEF Family
  <2> QED BY <2>2, <2>3
<1>9. CASE p = "parent" /\ Loops(p)
  BY <1>5, <1>6, <1>9, TodoStep
<1>10. CASE p = "parent" /\ Fails(p)
  BY <1>1, <1>10, TodoStep, ForkFacts DEF Fails, FailureOK
<1>11. CASE p = "parent" /\ Dies(p)
  BY <1>11, TodoStep, ScriptEmpty
<1> QED BY <1>5, <1>6, <1>7, <1>8, <1>9, <1>10, <1>11 DEF Moves

LEMMA CodeKeptStep ==
  ASSUME Family, Typed, CodeKept, NEW p \in Procs, Step(p)
  PROVE  CodeKept'
<1>1. "parent" \in Procs /\ "child" \in Procs /\ state[p] = "running" /\ Moves(p)
      /\ UNCHANGED program
  BY StepRuns, StepMoves DEF Procs, Moves
<1>2. Forks(p) => ~Born(Call(p).who)
  BY <1>1, ForkFacts DEF Forks
<1>3. ASSUME program = "fork_test", Ended("child")'
      PROVE  status'["child"] = 256 * (variable'["child"] % 256)
  <2>1. CASE Ended("child")
    <3>1. p # "child" /\ ~(Forks(p) /\ "child" = Call(p).who)
      BY <1>1, <1>2, <2>1, StaysEnded DEF Ended, Born
    <3>2. status'["child"] = status["child"] /\ variable'["child"] = variable["child"]
      BY <1>1, <3>1, StatusStep, VariableStep
    <3> QED BY <1>3, <2>1, <3>2 DEF CodeKept
  <2>2. CASE ~Ended("child")
    <3>1. p = "child" /\ Dies(p)
      BY <1>1, <1>3, <2>2, StaysEnded
    <3>2. CallOK(program, p, Call(p)) /\ Call(p).call \in {"exit", "write"}
      BY <1>1, <3>1, CallFacts DEF Dies
    <3>3. Call(p).call = "exit"
      BY <1>3, <3>2 DEF CallOK
    <3>4. Call(p).value = "variable"
      BY <1>3, <3>1, <3>2, <3>3 DEF CallOK, PlainOK
    <3>5. ExitValue(p) = variable[p]
      BY <3>4 DEF ExitValue
    <3>6. variable'[p] = variable[p]
      BY <3>3, VariableStep
    <3> QED BY <3>1, <3>3, <3>5, <3>6, StatusStep
  <2> QED BY <2>1, <2>2
<1>4. ASSUME state'["child"] = "reaped"
      PROVE  waited'["parent"] = status'["child"]
  <2>1. CASE state["child"] = "reaped"
    <3>1. p # "child"
      BY <1>1, <2>1
    <3>2. status'["child"] = status["child"]
      BY <1>1, <3>1, StatusStep
    <3>3. waited'["parent"] = waited["parent"]
      <4>1. CASE p # "parent" \/ Call(p).call # "wait"
        BY <1>1, <4>1, WaitedStep
      <4>2. CASE p = "parent" /\ Call(p).call = "wait"
        <5>1. Advances(p)
          BY <1>1, <4>2 DEF Moves, Loops, Forks, Fails, Dies
        <5>2. PICK c \in DOMAIN Parent : Parent[c] = p /\ state[c] = "zombie"
          BY <4>2, <5>1 DEF Advances, Reaps
        <5> QED BY <2>1, <4>2, <5>2, ParentFacts
      <4> QED BY <4>1, <4>2
    <3> QED BY <2>1, <3>2, <3>3 DEF CodeKept
  <2>2. CASE state["child"] # "reaped"
    <3>1. p = "parent" /\ Call(p).call = "wait"
      BY <1>1, <1>4, <2>2, StateStep, ParentFacts
    <3>2. \E c \in DOMAIN Parent : Parent[c] = "parent" /\ waited'["parent"] = status[c]
      BY <3>1, WaitedStep
    <3>3. waited'["parent"] = status["child"]
      BY <3>2, ParentFacts
    <3> QED BY <1>1, <3>1, <3>3, StatusStep
  <2> QED BY <2>1, <2>2
<1> QED BY <1>1, <1>3, <1>4 DEF CodeKept

LEMMA CodeShownStep ==
  ASSUME Family, Typed, CodeLater, CodeKept, CodeShown, NEW p \in Procs, Step(p)
  PROVE  CodeShown'
<1> SUFFICES ASSUME NEW l \in AllLines', l.text = ExitCode
             PROVE  /\ program' = "fork_test" /\ state'["child"] = "reaped"
                    /\ l.value = variable'["child"] % 256
  BY DEF CodeShown
<1>1. "parent" \in Procs /\ "child" \in Procs /\ state[p] = "running" /\ Moves(p)
      /\ UNCHANGED program /\ Shows(p)
  BY StepRuns, StepMoves, StepShows DEF Procs, Moves
<1>2. CASE l \in AllLines
  <2>1. program = "fork_test" /\ state["child"] = "reaped"
        /\ l.value = variable["child"] % 256
    BY <1>2 DEF CodeShown
  <2>2. p # "child" /\ ~(Forks(p) /\ "child" = Call(p).who)
    BY <1>1, <2>1, ForkFacts DEF Forks, Born
  <2>3. variable'["child"] = variable["child"] /\ state'["child"] = "reaped"
    BY <1>1, <2>1, <2>2, VariableStep, StaysEnded
  <2> QED BY <1>1, <2>1, <2>3
<1>3. CASE l = Line(p) /\ (Says(Call(p)) \/ Call(p).call = "write1")
  <2>1. Says(Call(p)) /\ Call(p).text = ExitCode /\ l.value = Shown(p, ExitCode)
    <3>1. Line(p).text = ExitCode /\ Line(p).text # "This line"
      BY <1>3 DEF ExitCode
    <3>2. Says(Call(p))
      BY <1>1, <1>3, <3>1, LineFacts
    <3>3. Line(p).text = Call(p).text /\ Line(p).value = Shown(p, Call(p).text)
      BY <1>1, <3>2, LineFacts
    <3> QED BY <1>3, <3>1, <3>2, <3>3
  <2>2. program = "fork_test" /\ p = "parent"
    BY <1>1, <2>1, CallFacts DEF CallOK, PlainOK
  <2>3. ~Has(todo["parent"], "wait")
    <3> SUFFICES ASSUME NEW d \in Range(todo["parent"]), d.call = "wait"
                 PROVE  FALSE
      BY DEF Has
    <3>1. d # Call(p)
      BY <2>1 DEF Says
    <3>2. MayPrecede(program, p, Call(p), d)
      BY <1>1, <2>2, <3>1, CallFacts
    <3>3. Call(p).text \in Free
      BY <2>1, <2>2, <3>2 DEF MayPrecede, Ordered
    <3> QED BY <2>1, <3>3 DEF Free, ExitCode
  <2>4. Call(p) \in Range(todo["parent"])
    BY <1>1, <2>2, CallFacts
  <2>5. state["child"] = "reaped"
    BY <2>1, <2>2, <2>3, <2>4 DEF CodeLater
  <2>6. waited["parent"] = 256 * (variable["child"] % 256)
    BY <2>2, <2>5 DEF CodeKept, Ended
  <2>7. Shown(p, ExitCode) = WEXITSTATUS(waited["parent"])
    BY <2>2 DEF Shown, ExitCode
  <2>8. variable["child"] \in Int
    BY <1>1 DEF Typed
  <2>9. l.value = variable["child"] % 256
    BY <2>1, <2>6, <2>7, <2>8, CodeRead
  <2>10. p # "child" /\ ~Forks(p)
    BY <2>1, <2>2 DEF Forks, Says
  <2>11. variable'["child"] = variable["child"] /\ state'["child"] = "reaped"
    BY <1>1, <2>5, <2>10, VariableStep, StaysEnded
  <2> QED BY <1>1, <2>2, <2>9, <2>11
<1> QED BY <1>1, <1>2, <1>3, NewLine

LEMMA GlobalKeptStep ==
  ASSUME Family, Typed, GlobalKept, NEW p \in Procs, Step(p)
  PROVE  GlobalKept'
<1> SUFFICES ASSUME program = "fork_text" PROVE GlobalKept'
  BY StepMoves DEF GlobalKept, Moves
<1>1. "parent" \in Procs /\ "child" \in Procs /\ state[p] = "running" /\ Moves(p)
      /\ UNCHANGED program
  BY StepRuns, StepMoves DEF Procs, Moves
<1>2. CallOK(program, p, Call(p))
  BY <1>1, CallFacts
<1>3. variable["parent"] = 2
  BY DEF GlobalKept
<1>4. Forks(p) => p = "parent" /\ Call(p).who = "child" /\ ~Born("child")
  BY <1>1, <1>2, ForkFacts, ParentFacts DEF Forks, CallOK
<1>5. variable'["parent"] = 2
  <2>1. CASE p # "parent"
    BY <1>1, <1>3, <1>4, <2>1, VariableStep
  <2>2. CASE p = "parent"
    <3>1. Call(p).call \notin {"increment", "scanf"}
      BY <1>2, <2>2 DEF CallOK
    <3> QED BY <1>3, <2>2, <3>1, VariableStep
  <2> QED BY <2>1, <2>2
<1>6. ASSUME Born("child")'
      PROVE  variable'["child"] = IF Has(todo'["child"], "increment") THEN 2 ELSE 3
  <2>1. CASE ~Born("child")
    <3>1. Forks(p) /\ Call(p).who = "child"
      BY <1>1, <1>4, <1>6, <2>1, StaysEnded
    <3>2. variable'["child"] = 2
      BY <1>3, <1>4, <3>1, VariableStep
    <3>3. todo'["child"] = Programs[program]["child"]
      BY <1>1, <3>1, TodoStep
    <3>4. Has(Programs[program]["child"], "increment")
      BY AllScripts DEF Family, Member
    <3> QED BY <3>2, <3>3, <3>4
  <2>2. CASE Born("child")
    <3>1. variable["child"] = IF Has(todo["child"], "increment") THEN 2 ELSE 3
      BY <2>2 DEF GlobalKept
    <3>2. CASE p # "child"
      <4>1. ~(Forks(p) /\ "child" = Call(p).who)
        BY <1>4, <2>2
      <4>2. variable'["child"] = variable["child"] /\ todo'["child"] = todo["child"]
        BY <1>1, <3>2, <4>1, VariableStep, TodoStep
      <4> QED BY <3>1, <4>2
    <3>3. CASE p = "child" /\ Advances(p) /\ Call(p).call = "increment"
      <4>1. Has(todo[p], "increment")
        BY <1>1, <3>3, CallFacts
      <4>2. ~Has(Tail(todo[p]), "increment")
        BY <1>1, <3>3, TailHas
      <4>3. variable'[p] = 3
        BY <3>1, <3>3, <4>1, VariableStep
      <4> QED BY <1>1, <3>3, <4>2, <4>3, TodoStep
    <3>4. CASE p = "child" /\ Advances(p) /\ Call(p).call # "increment"
      <4>1. Call(p).call # "scanf"
        BY <1>2 DEF CallOK
      <4>2. Has(Tail(todo[p]), "increment") <=> Has(todo[p], "increment")
        BY <1>1, <3>4, TailHas DEF Advances
      <4> QED BY <1>1, <3>1, <3>4, <4>1, <4>2, TodoStep, VariableStep
    <3>5. CASE p = "child" /\ Loops(p)
      BY <1>1, <3>1, <3>5, TodoStep, VariableStep DEF Loops
    <3>6. CASE p = "child" /\ Dies(p)
      <4>1. Call(p).call = "exit"
        BY <1>2, <3>6 DEF CallOK, Dies
      <4>2. Range(todo[p]) = {Call(p)}
        BY <1>1, <4>1, CallFacts
      <4>3. ~Has(todo[p], "increment")
        BY <4>1, <4>2 DEF Has
      <4>4. ~Has(todo'[p], "increment")
        BY <1>1, <3>6, TodoStep, HasEmpty
      <4> QED BY <3>1, <3>6, <4>1, <4>3, <4>4, VariableStep
    <3>7. CASE p = "child" /\ (Forks(p) \/ Fails(p))
      BY <1>2, <3>7 DEF CallOK, Forks, Fails
    <3> QED BY <1>1, <3>2, <3>3, <3>4, <3>5, <3>6, <3>7 DEF Moves
  <2> QED BY <2>1, <2>2
<1> QED BY <1>5, <1>6 DEF GlobalKept

LEMMA GlobalShownStep ==
  ASSUME Family, Typed, GlobalKept, GlobalShown, NEW p \in Procs, Step(p)
  PROVE  GlobalShown'
<1> SUFFICES ASSUME NEW l \in AllLines', l.text = Global
             PROVE  l.value = IF l.by = "child" THEN 3 ELSE 2
  BY DEF GlobalShown
<1>1. state[p] = "running" /\ Shows(p)
  BY StepRuns, StepShows
<1>2. CASE l \in AllLines
  BY <1>2 DEF GlobalShown
<1>3. CASE l = Line(p) /\ (Says(Call(p)) \/ Call(p).call = "write1")
  <2>1. Says(Call(p)) /\ Call(p).text = Global /\ l.value = Shown(p, Global) /\ l.by = p
    BY <1>1, <1>3, LineFacts DEF Global
  <2>2. program = "fork_text" /\ p # "grandchild"
    BY <1>1, <2>1, CallFacts DEF CallOK, PlainOK
  <2>3. Shown(p, Global) = variable[p]
    BY DEF Shown, Global
  <2>4. CASE p = "parent"
    BY <2>1, <2>2, <2>3, <2>4 DEF GlobalKept
  <2>5. CASE p = "child"
    <3>1. ~Has(todo[p], "increment")
      <4> SUFFICES ASSUME NEW d \in Range(todo[p]), d.call = "increment"
                   PROVE  FALSE
        BY DEF Has
      <4>1. d # Call(p)
        BY <2>1 DEF Says
      <4>2. MayPrecede(program, p, Call(p), d)
        BY <1>1, <4>1, CallFacts
      <4> QED BY <2>1, <4>2 DEF MayPrecede
    <3>2. variable[p] = 3
      BY <1>1, <2>2, <2>5, <3>1 DEF GlobalKept, Born
    <3> QED BY <2>1, <2>3, <2>5, <3>2
  <2> QED BY <2>2, <2>4, <2>5 DEF Procs
<1> QED BY <1>1, <1>2, <1>3, NewLine

ValuesKept == CodeLater /\ CodeKept /\ CodeShown /\ GlobalKept /\ GlobalShown

LEMMA NoLines == Init => AllLines = {}
<1> SUFFICES ASSUME Init PROVE AllLines = {}
  OBVIOUS
<1>1. output = <<>> /\ \A p \in Procs : buffer[p] = <<>>
  BY DEF Init
<1> QED BY <1>1, ScriptEmpty DEF AllLines

LEMMA ValuesInit == Init => ValuesKept
<1> SUFFICES ASSUME Init PROVE ValuesKept
  OBVIOUS
<1>1. /\ state = [p \in Procs |-> IF p = "parent" THEN "running" ELSE "unborn"]
      /\ variable = [p \in Procs |-> 2]
      /\ todo = [p \in Procs |-> IF p = "parent" THEN Programs[program].parent ELSE <<>>]
      /\ program \in DOMAIN Programs
  BY DEF Init
<1>2. "parent" \in Procs /\ "child" \in Procs
  BY DEF Procs
<1>3. state["child"] = "unborn" /\ variable["parent"] = 2
  BY <1>1, <1>2
<1>4. todo["parent"] = Programs[program]["parent"]
  BY <1>1, <1>2
<1>5. program \in Ordered => Has(todo["parent"], "wait")
  <2>1. Script(program, "parent", todo["parent"]) /\ Has(todo["parent"], "fork")
    BY <1>1, <1>4, AllScripts DEF Member
  <2> QED BY <2>1 DEF Script, Followed, Has
<1> QED BY <1>3, <1>5, NoLines
        DEF ValuesKept, CodeLater, CodeKept, CodeShown, GlobalKept, GlobalShown, Ended, Born,
            Ordered

LEMMA ValuesStay == Spec => []ValuesKept
<1>1. Init => ValuesKept
  BY ValuesInit
<1>2. Kept /\ ValuesKept /\ [Next]_vars => ValuesKept'
  <2> SUFFICES ASSUME Kept, ValuesKept, [Next]_vars PROVE ValuesKept'
    OBVIOUS
  <2>1. ASSUME NEW p \in Procs, Step(p)
        PROVE  ValuesKept'
    <3>1. Family /\ Typed /\ CodeLater /\ CodeKept /\ CodeShown /\ GlobalKept /\ GlobalShown
      BY DEF Kept, ValuesKept
    <3>2. CodeLater'
      BY <2>1, <3>1, StepMoves, CodeLaterStep
    <3>3. CodeKept'
      BY <2>1, <3>1, CodeKeptStep
    <3>4. CodeShown'
      BY <2>1, <3>1, CodeShownStep
    <3>5. GlobalKept' /\ GlobalShown'
      BY <2>1, <3>1, GlobalKeptStep, GlobalShownStep
    <3> QED BY <3>2, <3>3, <3>4, <3>5 DEF ValuesKept
  <2>2. CASE UNCHANGED vars
    BY <2>2 DEF ValuesKept, CodeLater, CodeKept, CodeShown, GlobalKept, GlobalShown,
       AllLines,
                vars, memory, Ended, Born
  <2> QED BY <2>1, <2>2 DEF Next
<1> QED BY <1>1, <1>2, KeptStays, PTL DEF Spec

(* The invariant of fork_test.c and fork_text.c: the status that the parent *)
(* shows is what the child was given, modulo 256, for every value that     *)
(* scanf may have left, and the increment of one process is not the        *)
(* other's.                                                                *)
THEOREM ValuesCorrect == Spec => []ValuesShown
<1>1. ValuesKept => ValuesShown
  <2> SUFFICES ASSUME ValuesKept, NEW l \in Range(output)
               PROVE  /\ l.text = ExitCode => l.value = variable["child"] % 256
                      /\ l.text = Global => l.value = IF l.by = "child" THEN 3 ELSE 2
    BY DEF ValuesShown, ExitCode, Global
  <2>1. l \in AllLines
    BY DEF AllLines
  <2> QED BY <2>1 DEF ValuesKept, CodeShown, GlobalShown
<1> QED BY <1>1, ValuesStay, PTL

-----------------------------------------------------------------------------
(* 8. No line twice *)

\* Call c prints a line like l.
Prints(c, l) ==
  \/ Says(c) /\ c.text = l.text
  \/ c.call = "write1" /\ l.text = "This line" /\ c.value = l.value

\* The calls that p may still make, now that a fork may fail.
Ahead(p) ==
  Range(todo[p]) \cup
  UNION {Range(c.failure) : c \in {d \in Range(todo[p]) : d.call = "fork"}}

\* On a terminal a buffer holds what its process printed, and nothing at a fork.
OwnBuffers ==
  tty => \A p \in Procs : /\ \A l \in Range(buffer[p]) : l.by = p
                          /\ Has(todo[p], "fork") \/ ~Born(p) => buffer[p] = <<>>

\* A process does not print again what it has printed.
NeverAgain ==
  tty => \A p \in Procs : \A l \in Range(output) \cup Range(buffer[p]) :
           l.by = p => Born(p) /\ \A c \in Ahead(p) : ~Prints(c, l)

Once ==
  tty => /\ IsInjective(output)
         /\ \A p \in Procs : /\ IsInjective(buffer[p])
                             /\ Range(buffer[p]) \cap Range(output) = {}

LEMMA InjectiveAppend ==
  ASSUME NEW S, NEW q \in Seq(S), NEW x, IsInjective(q), x \notin Range(q)
  PROVE  IsInjective(Append(q, x))
<1> DEFINE r == Append(q, x)
<1>1. /\ DOMAIN r = 1..(Len(q) + 1) /\ DOMAIN q = 1..Len(q) /\ Len(q) \in Nat
      /\ \A i \in 1..Len(q) : r[i] = q[i]
      /\ r[Len(q) + 1] = x
  OBVIOUS
<1> HIDE DEF r
<1>2. \A i \in 1..Len(q) : r[i] # x
  BY <1>1 DEF Range
<1>3. ASSUME NEW i \in DOMAIN r, NEW k \in DOMAIN r, r[i] = r[k]
      PROVE  i = k
  <2>1. CASE i \in 1..Len(q) /\ k \in 1..Len(q)
    BY <1>1, <1>3, <2>1 DEF IsInjective
  <2>2. CASE i = Len(q) + 1 \/ k = Len(q) + 1
    BY <1>1, <1>2, <1>3, <2>2
  <2> QED BY <1>1, <2>1, <2>2
<1>4. IsInjective(r)
  BY <1>3 DEF IsInjective
<1> QED BY <1>4 DEF r

LEMMA InjectiveJoin ==
  ASSUME NEW S, NEW q \in Seq(S), NEW r \in Seq(S), IsInjective(q), IsInjective(r),
         Range(q) \cap Range(r) = {}
  PROVE  IsInjective(q \o r)
<1> DEFINE t == q \o r
<1>1. /\ DOMAIN t = 1..(Len(q) + Len(r)) /\ DOMAIN q = 1..Len(q) /\ DOMAIN r = 1..Len(r)
      /\ Len(q) \in Nat /\ Len(r) \in Nat
      /\ \A i \in 1..(Len(q) + Len(r)) : t[i] = IF i <= Len(q) THEN q[i] ELSE r[i - Len(q)]
  OBVIOUS
<1> HIDE DEF t
<1>2. ASSUME NEW i \in DOMAIN t, i <= Len(q)
      PROVE  t[i] = q[i] /\ t[i] \in Range(q) /\ i \in DOMAIN q
  BY <1>1, <1>2 DEF Range
<1>3. ASSUME NEW i \in DOMAIN t, ~(i <= Len(q))
      PROVE  t[i] = r[i - Len(q)] /\ t[i] \in Range(r) /\ i - Len(q) \in DOMAIN r
  <2>1. t[i] = r[i - Len(q)] /\ i - Len(q) \in DOMAIN r
    BY <1>1, <1>3
  <2> QED BY <2>1 DEF Range
<1>4. ASSUME NEW i \in DOMAIN t, NEW k \in DOMAIN t, t[i] = t[k]
      PROVE  i = k
  <2>1. CASE i <= Len(q) /\ k <= Len(q)
    BY <1>2, <1>4, <2>1 DEF IsInjective
  <2>2. CASE ~(i <= Len(q)) /\ ~(k <= Len(q))
    <3>1. i - Len(q) = k - Len(q)
      BY <1>3, <1>4, <2>2 DEF IsInjective
    <3> QED BY <1>1, <3>1
  <2>3. CASE (i <= Len(q)) # (k <= Len(q))
    BY <1>2, <1>3, <1>4, <2>3
  <2> QED BY <2>1, <2>2, <2>3
<1>5. IsInjective(t)
  BY <1>4 DEF IsInjective
<1> QED BY <1>5 DEF t

\* What happens to the buffers, apart from a line that is put into one.
LEMMA BufferStep ==
  ASSUME Family, Typed, NEW p \in Procs, state[p] = "running", Shows(p), ~Puts(p)
  PROVE  buffer'[p] = <<>> \/ buffer'[p] = buffer[p]
<1>1. buffer \in [Procs -> Seq(Lines)]
  BY DEF Typed
<1>2. CASE Flushes(p)
  BY <1>1, <1>2 DEF Flushes
<1>3. CASE Writes(p)
  BY <1>3 DEF Writes
<1>4. CASE Exits(p)
  BY <1>1, <1>4 DEF Exits
<1>5. CASE Copies(p)
  <2>1. Call(p).who # p
    BY <1>5, ForkFacts DEF Copies, Forks
  <2> QED BY <1>1, <1>5, <2>1 DEF Copies
<1>6. CASE Silent(p)
  BY <1>6 DEF Silent
<1> QED BY <1>2, <1>3, <1>4, <1>5, <1>6 DEF Shows

LEMMA OwnBuffersStep ==
  ASSUME Family, Typed, OwnBuffers, NEW p \in Procs, Step(p)
  PROVE  OwnBuffers'
<1> SUFFICES ASSUME tty, NEW q \in Procs
             PROVE  /\ \A l \in Range(buffer'[q]) : l.by = q
                    /\ Has(todo'[q], "fork") \/ ~Born(q)' => buffer'[q] = <<>>
  BY StepMoves DEF OwnBuffers, Moves
<1>1. state[p] = "running" /\ Moves(p) /\ Shows(p)
  BY StepRuns, StepMoves, StepShows
<1>2. Forks(p) => buffer[p] = <<>>
  <2> SUFFICES ASSUME Forks(p) PROVE buffer[p] = <<>>
    OBVIOUS
  <2>1. Has(todo[p], "fork")
    BY <1>1, CallFacts DEF Forks
  <2> QED BY <2>1 DEF OwnBuffers
<1>3. CASE q # p
  <2>1. buffer'[q] = IF Forks(p) /\ q = Call(p).who THEN buffer[p] ELSE buffer[q]
    BY <1>1, <1>3, ShowsRanges
  <2>2. CASE Forks(p) /\ q = Call(p).who
    <3>1. buffer'[q] = <<>>
      BY <1>2, <2>1, <2>2
    <3> QED BY <3>1, ScriptEmpty
  <2>3. CASE ~(Forks(p) /\ q = Call(p).who)
    <3>1. buffer'[q] = buffer[q] /\ todo'[q] = todo[q]
      BY <1>1, <1>3, <2>1, <2>3, TodoStep
    <3>2. ~Born(q)' => ~Born(q)
      BY <1>1, StaysEnded
    <3> QED BY <3>1, <3>2 DEF OwnBuffers
  <2> QED BY <2>2, <2>3
<1>4. CASE q = p
  <2>1. \A l \in Range(buffer'[p]) :
          l \in Range(buffer[p]) \/ (Says(Call(p)) /\ l = Line(p))
    BY <1>1, ShowsRanges
  <2>2. Says(Call(p)) => Line(p).by = p
    BY <1>1, LineFacts
  <2>3. \A l \in Range(buffer'[q]) : l.by = q
    BY <1>4, <2>1, <2>2 DEF OwnBuffers
  <2>4. Born(q)'
    BY <1>1, <1>4, StaysEnded DEF Born
  <2>5. ASSUME Has(todo'[p], "fork")
        PROVE  buffer'[p] = <<>>
    <3>1. PICK d \in Range(todo'[p]) : d.call = "fork"
      BY <2>5 DEF Has
    <3>2. ~(Forks(p) /\ p = Call(p).who)
      BY <1>1, ForkFacts DEF Forks
    <3>3. ~(Fails(p) /\ d \in Range(Call(p).failure))
      BY <1>1, <3>1, ForkFacts DEF Fails, FailureOK
    <3>4. d \in Range(todo[p])
      BY <1>1, <3>2, <3>3, TodoRange
    <3>5. buffer[p] = <<>>
      BY <3>1, <3>4 DEF OwnBuffers, Has
    <3>6. ~Puts(p)
      <4>1. CASE d = Call(p)
        BY <3>1, <4>1 DEF Puts, Says
      <4>2. CASE d # Call(p)
        <5>1. MayPrecede(program, p, Call(p), d)
          BY <1>1, <3>4, <4>2, CallFacts
        <5> QED BY <3>1, <5>1 DEF MayPrecede, Puts, Says
      <4> QED BY <4>1, <4>2
    <3> QED BY <1>1, <3>5, <3>6, BufferStep
  <2> QED BY <1>4, <2>3, <2>4, <2>5
<1> QED BY <1>3, <1>4

\* What is printed now is not printed later.
LEMMA LineOnce ==
  ASSUME Family, Typed, NEW p \in Procs, Moves(p),
         Says(Call(p)) \/ Call(p).call = "write1",
         NEW c \in Ahead(p)'
  PROVE  ~Prints(c, Line(p))
<1>1. state[p] = "running" /\ Call(p).call \notin {"exit", "fork", "read", "write"}
  BY DEF Moves, Says
<1>2. todo'[p] = Tail(todo[p])
  BY <1>1, TodoStep DEF Moves, Loops, Forks, Fails, Dies
<1>3. c \in Range(Tail(todo[p])) \/
      \E d \in Range(Tail(todo[p])) : d.call = "fork" /\ c \in Range(d.failure)
  BY <1>2 DEF Ahead
<1>4. /\ Script(program, p, Tail(todo[p]))
      /\ \A d \in Range(Tail(todo[p])) : MayPrecede(program, p, Call(p), d)
  BY <1>1, TailOfTodo
<1>5. ~SameLine(Call(p), c)
  BY <1>3, <1>4 DEF MayPrecede
<1>6. \A d \in Range(Tail(todo[p])) : CallOK(program, p, d)
  BY <1>4 DEF Script
<1>7. PlainOK(program, p, c)
  BY <1>3, <1>6 DEF CallOK, FailureOK
<1>8. Says(c) => c.text # "This line"
  BY <1>7 DEF PlainOK
<1>9. CASE Says(Call(p))
  <2>1. Line(p).text = Call(p).text /\ Line(p).text # "This line"
    BY <1>1, <1>9, LineFacts
  <2> QED BY <1>5, <1>9, <2>1 DEF Prints, SameLine
<1>10. CASE ~Says(Call(p))
  <2>1. Line(p).text = "This line" /\ Line(p).value = Call(p).value
        /\ Call(p).call = "write1"
    BY <1>1, <1>10, LineFacts
  <2> QED BY <1>5, <1>8, <2>1 DEF Prints, SameLine
<1> QED BY <1>9, <1>10

\* What a process may still make, it could make before.
LEMMA AheadShrinks ==
  ASSUME Family, NEW p \in Procs, Moves(p), NEW q \in Procs, Born(q)
  PROVE  Ahead(q)' \subseteq Ahead(q)
<1>1. state[p] = "running"
  BY DEF Moves
<1>2. ~(Forks(p) /\ q = Call(p).who)
  BY <1>1, ForkFacts DEF Forks
<1>3. \A d \in Range(todo'[q]) :
        d \in Range(todo[q]) \/ (Fails(p) /\ q = p /\ d \in Range(Call(p).failure))
  BY <1>2, TodoRange
<1>4. Fails(p) => /\ Call(p) \in Range(todo[p]) /\ Call(p).call = "fork"
                  /\ \A d \in Range(Call(p).failure) : d.call # "fork"
  BY <1>1, CallFacts, ForkFacts DEF Fails, FailureOK
<1> SUFFICES ASSUME NEW c \in Ahead(q)' PROVE c \in Ahead(q)
  OBVIOUS
<1>5. CASE c \in Range(todo'[q])
  <2>1. CASE c \in Range(todo[q])
    BY <2>1 DEF Ahead
  <2>2. CASE Fails(p) /\ q = p /\ c \in Range(Call(p).failure)
    BY <1>4, <2>2 DEF Ahead
  <2> QED BY <1>3, <1>5, <2>1, <2>2
<1>6. ASSUME NEW d \in Range(todo'[q]), d.call = "fork", c \in Range(d.failure)
      PROVE  c \in Ahead(q)
  <2>1. d \in Range(todo[q])
    BY <1>3, <1>4, <1>6
  <2> QED BY <1>6, <2>1 DEF Ahead
<1> QED BY <1>5, <1>6 DEF Ahead

LEMMA NeverAgainStep ==
  ASSUME Family, Typed, OwnBuffers, NeverAgain, NEW p \in Procs, Step(p)
  PROVE  NeverAgain'
<1> SUFFICES ASSUME tty, NEW q \in Procs, NEW l \in Range(output') \cup Range(buffer'[q]),
                    l.by = q
             PROVE  Born(q)' /\ \A c \in Ahead(q)' : ~Prints(c, l)
  BY StepMoves DEF NeverAgain, Moves
<1>1. state[p] = "running" /\ Moves(p) /\ Shows(p)
  BY StepRuns, StepMoves, StepShows
<1>2. Forks(p) => Range(buffer[p]) = {}
  <2> SUFFICES ASSUME Forks(p) PROVE Range(buffer[p]) = {}
    OBVIOUS
  <2>1. Has(todo[p], "fork")
    BY <1>1, CallFacts DEF Forks
  <2>2. buffer[p] = <<>>
    BY <2>1 DEF OwnBuffers
  <2> QED BY <2>2, ScriptEmpty
<1>3. Says(Call(p)) \/ Call(p).call = "write1" => Line(p).by = p
  BY <1>1, LineFacts
<1>4. \A k \in Range(buffer[p]) : k.by = p
  BY DEF OwnBuffers
<1>5. \/ l \in Range(output) \cup Range(buffer[q])
      \/ l = Line(p) /\ (Says(Call(p)) \/ Call(p).call = "write1")
  <2>1. CASE l \in Range(output')
    <3>1. \/ l \in Range(output) \/ l \in Range(buffer[p])
          \/ l = Line(p) /\ (Says(Call(p)) \/ Call(p).call = "write1")
      BY <1>1, <2>1, ShowsRanges
    <3> QED BY <1>4, <3>1
  <2>2. CASE l \in Range(buffer'[q]) /\ q = p
    <3>1. l \in Range(buffer[p]) \/ (l = Line(p) /\ Says(Call(p)))
      BY <1>1, <2>2, ShowsRanges
    <3> QED BY <2>2, <3>1
  <2>3. CASE l \in Range(buffer'[q]) /\ q # p
    <3>1. buffer'[q] = IF Forks(p) /\ q = Call(p).who THEN buffer[p] ELSE buffer[q]
      BY <1>1, <2>3, ShowsRanges
    <3> QED BY <1>2, <2>3, <3>1
  <2> QED BY <2>1, <2>2, <2>3
<1>6. CASE l \in Range(output) \cup Range(buffer[q])
  <2>1. Born(q) /\ \A c \in Ahead(q) : ~Prints(c, l)
    BY <1>6 DEF NeverAgain
  <2>2. Born(q)' /\ Ahead(q)' \subseteq Ahead(q)
    BY <1>1, <2>1, StaysEnded, AheadShrinks
  <2> QED BY <2>1, <2>2
<1>7. CASE l = Line(p) /\ (Says(Call(p)) \/ Call(p).call = "write1")
  <2>1. q = p
    BY <1>3, <1>7
  <2>2. Born(q)'
    BY <1>1, <2>1, StaysEnded DEF Born
  <2> QED BY <1>1, <1>7, <2>1, <2>2, LineOnce
<1> QED BY <1>5, <1>6, <1>7

LEMMA FreshLine ==
  ASSUME Family, Typed, NeverAgain, tty, NEW p \in Procs, state[p] = "running",
         Says(Call(p)) \/ Call(p).call = "write1"
  PROVE  Line(p) \notin Range(output) \cup Range(buffer[p])
<1>1. Call(p) \in Ahead(p)
  BY CallFacts DEF Ahead
<1>2. Prints(Call(p), Line(p)) /\ Line(p).by = p
  BY LineFacts DEF Prints
<1> QED BY <1>1, <1>2 DEF NeverAgain

LEMMA OnceStep ==
  ASSUME Family, Typed, OwnBuffers, NeverAgain, Once, NEW p \in Procs, Step(p)
  PROVE  Once'
<1> SUFFICES ASSUME tty
             PROVE  /\ IsInjective(output')
                    /\ \A q \in Procs : /\ IsInjective(buffer'[q])
                                        /\ Range(buffer'[q]) \cap Range(output') = {}
  BY StepMoves DEF Once, Moves
<1>1. state[p] = "running" /\ Moves(p) /\ Shows(p)
  BY StepRuns, StepMoves, StepShows
<1>2. /\ buffer \in [Procs -> Seq(Lines)] /\ output \in Seq(Lines)
         /\ buffer[p] \in Seq(Lines)
  BY DEF Typed
<1>3. /\ IsInjective(output)
      /\ \A q \in Procs : IsInjective(buffer[q]) /\ Range(buffer[q]) \cap Range(output) = {}
  BY DEF Once
<1>4. \A q \in Procs : \A l \in Range(buffer[q]) : l.by = q
  BY DEF OwnBuffers
<1>5. IsInjective(<<>>) /\ Range(<<>>) = {}
  BY ScriptEmpty DEF IsInjective
<1>6. Says(Call(p)) \/ Call(p).call = "write1" =>
        Line(p) \notin Range(output) \cup Range(buffer[p]) /\ Line(p) \in Lines
        /\ Line(p).by = p
  BY <1>1, FreshLine, LineFacts
<1>7. Says(Call(p)) => /\ Append(buffer[p], Line(p)) \in Seq(Lines)
                       /\ IsInjective(Append(buffer[p], Line(p)))
                       /\ Range(Append(buffer[p], Line(p))) = Range(buffer[p]) \cup {Line(p)}
  <2> SUFFICES ASSUME Says(Call(p))
               PROVE  /\ Append(buffer[p], Line(p)) \in Seq(Lines)
                      /\ IsInjective(Append(buffer[p], Line(p)))
                      /\ Range(Append(buffer[p], Line(p))) = Range(buffer[p]) \cup {Line(p)}
    OBVIOUS
  <2>1. IsInjective(buffer[p]) /\ Line(p) \notin Range(buffer[p]) /\ Line(p) \in Lines
    BY <1>3, <1>6
  <2>2. Append(buffer[p], Line(p)) \in Seq(Lines)
    BY <1>2, <2>1
  <2>3. IsInjective(Append(buffer[p], Line(p)))
    BY <1>2, <2>1, InjectiveAppend
  <2>4. Range(Append(buffer[p], Line(p))) = Range(buffer[p]) \cup {Line(p)}
    BY <1>2, RangeAppend
  <2> QED BY <2>2, <2>3, <2>4
<1>8. \A q \in Procs : q # p =>
        buffer'[q] = IF Forks(p) /\ q = Call(p).who THEN buffer[p] ELSE buffer[q]
  BY <1>1, ShowsRanges
<1>9. CASE Puts(p)
  <2>1. buffer'[p] = Append(buffer[p], Line(p)) /\ output' = output /\ Says(Call(p))
        /\ \A q \in Procs : q # p => buffer'[q] = buffer[q]
    BY <1>2, <1>9 DEF Puts
  <2>2. IsInjective(buffer'[p]) /\ Range(buffer'[p]) \cap Range(output) = {}
    BY <1>3, <1>6, <1>7, <2>1
  <2> QED BY <1>3, <2>1, <2>2
<1>10. CASE Flushes(p)
  <2> DEFINE r == Append(buffer[p], Line(p))
  <2>1. /\ r \in Seq(Lines) /\ IsInjective(r) /\ Range(r) = Range(buffer[p]) \cup {Line(p)}
        /\ output' = output \o r /\ Says(Call(p))
    BY <1>7, <1>10 DEF Flushes
  <2>2. buffer'[p] = <<>> /\ \A q \in Procs : q # p => buffer'[q] = buffer[q]
    BY <1>2, <1>10 DEF Flushes
  <2> HIDE DEF r
  <2>3. Range(output) \cap Range(r) = {}
    BY <1>3, <1>6, <2>1
  <2>4. IsInjective(output \o r)
    BY <1>2, <1>3, <2>1, <2>3, InjectiveJoin
  <2>5. Range(output \o r) = Range(output) \cup Range(r)
    BY <1>2, <2>1, RangeJoin
  <2>6. \A l \in Range(r) : l.by = p
    BY <1>4, <1>6, <2>1
  <2>7. ASSUME NEW q \in Procs, q # p
        PROVE  IsInjective(buffer'[q]) /\ Range(buffer'[q]) \cap Range(output') = {}
    <3>1. buffer'[q] = buffer[q] /\ Range(output') = Range(output) \cup Range(r)
      BY <2>1, <2>2, <2>5, <2>7
    <3>2. Range(buffer[q]) \cap Range(r) = {}
      BY <1>4, <2>6, <2>7
    <3> QED BY <1>3, <3>1, <3>2
  <2>8. IsInjective(buffer'[p]) /\ Range(buffer'[p]) \cap Range(output') = {}
    BY <1>5, <2>2
  <2>9. IsInjective(output')
    BY <2>1, <2>4
  <2> QED BY <2>7, <2>8, <2>9
<1>11. CASE Writes(p)
  <2>1. output' = Append(output, Line(p)) /\ Call(p).call = "write1" /\ buffer' = buffer
    BY <1>11 DEF Writes
  <2>2. Line(p) \notin Range(output) \cup Range(buffer[p]) /\ Line(p).by = p
    BY <1>6, <2>1
  <2>3. IsInjective(output')
    BY <1>2, <1>3, <2>1, <2>2, InjectiveAppend
  <2>4. Range(output') = Range(output) \cup {Line(p)}
    BY <1>2, <2>1, RangeAppend
  <2>5. ASSUME NEW q \in Procs
        PROVE  Line(p) \notin Range(buffer[q])
    BY <1>4, <2>2
  <2> QED BY <1>3, <2>1, <2>3, <2>4, <2>5
<1>12. CASE Exits(p)
  <2>1. /\ output' = output \o buffer[p] /\ buffer'[p] = <<>>
        /\ \A q \in Procs : q # p => buffer'[q] = buffer[q]
    BY <1>2, <1>12 DEF Exits
  <2>2. IsInjective(output')
    BY <1>2, <1>3, <2>1, InjectiveJoin
  <2>3. Range(output') = Range(output) \cup Range(buffer[p])
    BY <1>2, <2>1, RangeJoin
  <2>4. ASSUME NEW q \in Procs, q # p
        PROVE  Range(buffer[q]) \cap Range(buffer[p]) = {}
    BY <1>4, <2>4
  <2> QED BY <1>3, <1>5, <2>1, <2>2, <2>3, <2>4
<1>13. CASE Copies(p)
  <2>1. /\ buffer' = [buffer EXCEPT ![Call(p).who] = buffer[p]] /\ output' = output
        /\ Has(todo[p], "fork")
    BY <1>1, <1>13, CallFacts DEF Copies, Forks
  <2>2. buffer[p] = <<>>
    BY <2>1 DEF OwnBuffers
  <2>3. \A q \in Procs : buffer'[q] = buffer[q] \/ buffer'[q] = <<>>
    BY <1>2, <2>1, <2>2
  <2> QED BY <1>3, <1>5, <2>1, <2>3
<1>14. CASE Silent(p)
  BY <1>3, <1>14 DEF Silent
<1> QED BY <1>1, <1>9, <1>10, <1>11, <1>12, <1>13, <1>14 DEF Shows

PrintsKept == OwnBuffers /\ NeverAgain /\ Once

LEMMA PrintsStay == Spec => []PrintsKept
<1>1. Init => PrintsKept
  <2> SUFFICES ASSUME Init PROVE PrintsKept
    OBVIOUS
  <2>1. output = <<>> /\ \A p \in Procs : buffer[p] = <<>>
    BY DEF Init
  <2>2. Range(<<>>) = {} /\ IsInjective(<<>>)
    BY ScriptEmpty DEF IsInjective
  <2> QED BY <2>1, <2>2 DEF PrintsKept, OwnBuffers, NeverAgain, Once
<1>2. Kept /\ PrintsKept /\ [Next]_vars => PrintsKept'
  <2> SUFFICES ASSUME Kept, PrintsKept, [Next]_vars PROVE PrintsKept'
    OBVIOUS
  <2>1. ASSUME NEW p \in Procs, Step(p)
        PROVE  PrintsKept'
    BY <2>1, OwnBuffersStep, NeverAgainStep, OnceStep DEF Kept, PrintsKept
  <2>2. CASE UNCHANGED vars
    BY <2>2 DEF PrintsKept, OwnBuffers, NeverAgain, Once, Ahead, vars, Born
  <2> QED BY <2>1, <2>2 DEF Next
<1> QED BY <1>1, <1>2, KeptStays, PTL DEF Spec

(* The invariant that on a terminal no line comes out twice, in any of the *)
(* programs, whatever number of lines fork-01.c writes: what a process has *)
(* printed neither it nor the copy of its buffer in a child prints again,  *)
(* also not after a fork that failed.                                      *)
THEOREM PrintedCorrect == Spec => []PrintedOnce
<1>1. PrintsKept => PrintedOnce
  BY DEF PrintsKept, Once, PrintedOnce
<1> QED BY <1>1, PrintsStay, PTL

-----------------------------------------------------------------------------
(* 9. Who waits for whom, and the open ends *)

\* Where the order of the output matters, a running process waits for its child.
Waits ==
  program \in Ordered =>
    \A q \in DOMAIN Parent :
      state[q] \in {"running", "zombie"} /\ state[Parent[q]] = "running" =>
        Has(todo[Parent[q]], "wait")

\* In partB.c, a process that does not exist yet is still to be forked.
ForkLater ==
  program = "partB" /\ ~failed =>
    \A q \in DOMAIN Parent : ~Born(q) /\ Born(Parent[q]) => Has(todo[Parent[q]], "fork")

\* In partB.c, all ends are open at a fork, and what a process has to close it
\* has open.
EndsOpen ==
  program = "partB" =>
    \A p \in Procs : ~Has(todo[p], "pipe") =>
      /\ Has(todo[p], "fork") => fds[p] = Ends
      /\ \A d \in Range(todo[p]) : d.call = "close" => d.end \in fds[p]

LEMMA WaitsStep ==
  ASSUME Family, Waits, NEW p \in Procs, Moves(p)
  PROVE  Waits'
<1> SUFFICES ASSUME program \in Ordered, NEW q \in DOMAIN Parent,
                    state'[q] \in {"running", "zombie"}, state'[Parent[q]] = "running"
             PROVE  Has(todo'[Parent[q]], "wait")
  BY DEF Waits, Moves
<1>1. state[p] = "running" /\ q \in Procs /\ Parent[q] \in Procs
  BY ParentFacts DEF Moves, Procs
<1>2. CASE Forks(p) /\ q = Call(p).who
  <2>1. Parent[q] = p /\ Call(p).call = "fork"
    BY <1>1, <1>2, ForkFacts DEF Forks
  <2>2. Script(program, p, todo[p]) /\ Call(p) \in Range(todo[p])
    BY <1>1, CallFacts DEF Family
  <2>3. Has(todo[p], "wait")
    BY <2>1, <2>2 DEF Script, Followed
  <2>4. Has(Tail(todo[p]), "wait")
    BY <1>1, <2>1, <2>3, TailHas
  <2> QED BY <1>2, <2>1, <2>4, TodoStep
<1>3. CASE ~(Forks(p) /\ q = Call(p).who)
  <2>1. state[q] \in {"running", "zombie"}
    BY <1>1, <1>3, StateStep
  <2>2. ~(Forks(p) /\ Parent[q] = Call(p).who) /\ state[Parent[q]] = "running"
    <3>1. Born(Parent[q])
      BY <2>1 DEF Family, Born
    <3>2. ~(Forks(p) /\ Parent[q] = Call(p).who)
      BY <1>1, <3>1, ForkFacts DEF Forks
    <3> QED BY <1>1, <3>2, StateStep
  <2>3. Has(todo[Parent[q]], "wait")
    BY <2>1, <2>2 DEF Waits
  <2>4. CASE Parent[q] # p
    BY <1>1, <2>2, <2>3, <2>4, TodoStep
  <2>5. CASE Parent[q] = p
    <3>1. ~Dies(p)
      BY <1>1, <2>5 DEF Dies, Family
    <3>2. ~Forks(p) /\ ~Fails(p)
      <4> SUFFICES ASSUME Call(p).call = "fork" PROVE FALSE
        BY DEF Forks, Fails
      <4>1. ~Born(Call(p).who) /\ Call(p).who \in DOMAIN Parent /\ Parent[Call(p).who] = p
        BY <1>1, ForkFacts
      <4>2. Call(p).who = q
        BY <2>5, <4>1, ParentFacts
      <4> QED BY <2>1, <4>1, <4>2 DEF Born
    <3>3. CASE Advances(p) /\ Call(p).call # "wait"
      <4>1. Has(Tail(todo[p]), "wait")
        BY <1>1, <2>3, <2>5, <3>3, TailHas DEF Advances
      <4> QED BY <2>5, <3>3, <4>1, TodoStep
    <3>4. CASE Advances(p) /\ Call(p).call = "wait"
      <4>1. PICK c \in DOMAIN Parent : Parent[c] = p
            /\ state' = [state EXCEPT ![c] = "reaped"]
        BY <3>4 DEF Advances, Reaps
      <4>2. c = q
        BY <2>5, <4>1, ParentFacts
      <4>3. state'[q] = "reaped"
        BY <1>1, <4>1, <4>2 DEF Family
      <4> QED BY <4>3
    <3>5. CASE Loops(p)
      BY <2>3, <2>5, <3>5, TodoStep
    <3> QED BY <3>1, <3>2, <3>3, <3>4, <3>5 DEF Moves
  <2> QED BY <2>4, <2>5
<1> QED BY <1>2, <1>3

LEMMA ForkLaterStep ==
  ASSUME Family, ForkLater, NEW p \in Procs, Moves(p)
  PROVE  ForkLater'
<1> SUFFICES ASSUME program = "partB", ~failed', NEW q \in DOMAIN Parent,
                    ~Born(q)', Born(Parent[q])'
             PROVE  Has(todo'[Parent[q]], "fork")
  BY DEF ForkLater, Moves
<1>1. state[p] = "running" /\ q \in Procs /\ Parent[q] \in Procs /\ ~Born(q)
  BY StaysEnded, ParentFacts DEF Moves, Procs
<1>2. ~Fails(p) /\ ~failed
  BY DEF Moves, Advances, Loops, Forks, Fails, Dies
<1>3. CASE ~Born(Parent[q])
  <2>1. Forks(p) /\ Parent[q] = Call(p).who
    BY <1>1, <1>3, StaysEnded
  <2>2. Parent[q] = "child"
    BY <1>1, <2>1, ForkFacts, ParentFacts DEF Forks
  <2>3. Has(Programs[program]["child"], "fork")
    BY AllScripts DEF Family, Member
  <2>4. todo'[Call(p).who] = Programs[program][Call(p).who]
    BY <2>1, TodoStep
  <2>5. todo'["child"] = Programs[program]["child"]
    BY <2>1, <2>2, <2>4
  <2> QED BY <2>2, <2>3, <2>5
<1>4. CASE Born(Parent[q])
  <2>1. Has(todo[Parent[q]], "fork")
    BY <1>1, <1>2, <1>4 DEF ForkLater
  <2>2. ~(Forks(p) /\ Parent[q] = Call(p).who)
    BY <1>1, <1>4, ForkFacts DEF Forks
  <2>3. CASE Parent[q] # p
    BY <1>1, <2>1, <2>2, <2>3, TodoStep
  <2>4. CASE Parent[q] = p
    <3>1. ~Forks(p)
      <4> SUFFICES ASSUME Forks(p) PROVE FALSE
        OBVIOUS
      <4>1. Call(p).who \in DOMAIN Parent /\ Parent[Call(p).who] = p
            /\ Call(p).who \in Procs
        BY <1>1, ForkFacts DEF Forks
      <4>2. Call(p).who = q
        BY <2>4, <4>1, ParentFacts
      <4>3. state' = [state EXCEPT ![q] = "running"] /\ state = [r \in Procs |-> state[r]]
        BY <4>2 DEF Forks, Family
      <4>4. state'[q] = "running"
        BY <1>1, <4>3
      <4> QED BY <4>4 DEF Born
    <3>2. ~Dies(p)
      <4> SUFFICES ASSUME Dies(p) PROVE FALSE
        OBVIOUS
      <4>1. PICK d \in Range(todo[p]) : d.call = "fork"
        BY <2>1, <2>4 DEF Has
      <4>2. d # Call(p) /\ Call(p).call \in {"exit", "write"}
        BY <4>1 DEF Dies
      <4>3. MayPrecede(program, p, Call(p), d)
        BY <1>1, <4>1, <4>2, CallFacts
      <4> QED BY <4>1, <4>2, <4>3 DEF MayPrecede
    <3>3. CASE Advances(p)
      <4>1. Has(Tail(todo[p]), "fork")
        BY <1>1, <2>1, <2>4, <3>3, TailHas DEF Advances
      <4> QED BY <2>4, <3>3, <4>1, TodoStep
    <3>4. CASE Loops(p)
      BY <2>1, <2>4, <3>4, TodoStep
    <3> QED BY <1>2, <3>1, <3>2, <3>3, <3>4 DEF Moves
  <2> QED BY <2>3, <2>4
<1> QED BY <1>3, <1>4

LEMMA FdsStep ==
  ASSUME Family, Typed, NEW p \in Procs, Step(p)
  PROVE  /\ \A q \in Procs : q # p /\ ~(Forks(p) /\ q = Call(p).who) => fds'[q] = fds[q]
         /\ Forks(p) => fds'[Call(p).who] = fds[p]
         /\ Call(p).call = "pipe" => fds'[p] = Ends
         /\ Call(p).call = "close" => fds'[p] = fds[p] \ {Call(p).end}
         /\ Call(p).call \notin {"pipe", "close"} /\ ~Dies(p) => fds'[p] = fds[p]
<1>1. fds = [q \in Procs |-> fds[q]] /\ state[p] = "running"
  BY StepRuns DEF Typed
<1>2. CASE makePipes(p)
  BY <1>1, <1>2 DEF makePipes, Calls, Call, Forks
<1>3. CASE close(p)
  BY <1>1, <1>3 DEF close, Calls, Call, Forks
<1>4. CASE fork(p)
  <2>1. Call(p).call = "fork"
    BY <1>4 DEF fork, Calls, Call
  <2>2. Call(p).who \in Procs /\ Call(p).who # p /\ ~Born(Call(p).who)
    BY <1>1, <2>1, ForkFacts
  <2>3. CASE fds' = [fds EXCEPT ![Call(p).who] = fds[p]] /\ Forks(p)
    BY <1>1, <2>1, <2>2, <2>3
  <2>4. CASE fds' = fds /\ state' = state
    <3>1. ~Forks(p)
      BY <2>2, <2>4 DEF Forks, Born, Family
    <3> QED BY <2>1, <2>4, <3>1
  <2> QED BY <1>4, <2>1, <2>3, <2>4 DEF fork, Forks, Call
<1>5. CASE exit(p)
  <2>1. Call(p).call = "exit" /\ Dies(p) /\ fds' = [fds EXCEPT ![p] = {}]
    BY <1>1, <1>5 DEF exit, Calls, Call, End, Dies
  <2> QED BY <1>1, <2>1 DEF Forks
<1>6. CASE write(p)
  <2>1. Call(p).call = "write"
    BY <1>6 DEF write, Calls, Call
  <2>2. fds' = fds \/ (Dies(p) /\ fds' = [fds EXCEPT ![p] = {}])
    BY <1>6, <2>1 DEF write, End, Dies
  <2> QED BY <1>1, <2>1, <2>2 DEF Forks
<1>7. CASE printf(p) \/ endl(p) \/ write1(p) \/ increment(p) \/ scanf(p) \/ wait(p) \/ read(p)
  <2>1. fds' = fds
    BY <1>7 DEF printf, endl, write1, increment, scanf, wait, read, files
  <2>2. Call(p).call \notin {"pipe", "close", "fork"}
    BY <1>7 DEF printf, endl, write1, increment, scanf, wait, read, Calls, Call
  <2> QED BY <2>1, <2>2 DEF Forks
<1> QED BY <1>2, <1>3, <1>4, <1>5, <1>6, <1>7 DEF Step, Runs

LEMMA EndsOpenStep ==
  ASSUME Family, Typed, EndsOpen, NEW p \in Procs, Step(p)
  PROVE  EndsOpen'
<1> SUFFICES ASSUME program = "partB", NEW q \in Procs, ~Has(todo'[q], "pipe")
             PROVE  /\ Has(todo'[q], "fork") => fds'[q] = Ends
                    /\ \A d \in Range(todo'[q]) : d.call = "close" => d.end \in fds'[q]
  BY StepMoves DEF EndsOpen, Moves
<1>1. state[p] = "running" /\ Moves(p)
  BY StepRuns, StepMoves
<1>2. Family'
  BY <1>1, FamilyStep
<1>3. \A d \in Range(todo'[q]) : d.call = "close" => d.end \in Ends
  BY <1>1, <1>2 DEF Family, Script, CallOK
<1>4. CASE q # p /\ Forks(p) /\ q = Call(p).who
  <2>1. Call(p) \in Range(todo[p]) /\ Call(p).call = "fork" /\ Has(todo[p], "fork")
    BY <1>1, <1>4, CallFacts DEF Forks
  <2>2. ~Has(todo[p], "pipe")
    <3> SUFFICES ASSUME NEW d \in Range(todo[p]), d.call = "pipe" PROVE FALSE
      BY DEF Has
    <3>1. MayPrecede(program, p, Call(p), d)
      BY <1>1, <2>1, CallFacts
    <3> QED BY <2>1, <3>1 DEF MayPrecede
  <2>3. fds'[q] = Ends
    BY <1>4, <2>1, <2>2, FdsStep DEF EndsOpen
  <2> QED BY <1>3, <2>3
<1>5. CASE q # p /\ ~(Forks(p) /\ q = Call(p).who)
  <2>1. fds'[q] = fds[q] /\ todo'[q] = todo[q]
    BY <1>1, <1>5, FdsStep, TodoStep
  <2> QED BY <2>1 DEF EndsOpen
<1>6. CASE q = p /\ Call(p).call = "pipe"
  BY <1>3, <1>6, FdsStep
<1>7. CASE q = p /\ Call(p).call # "pipe" /\ Dies(p)
  <2>1. todo'[q] = <<>>
    BY <1>1, <1>7, TodoStep
  <2> QED BY <2>1, HasEmpty, ScriptEmpty
<1>8. CASE q = p /\ Fails(p)
  <2>1. Call(p).call = "fork"
    BY <1>8 DEF Fails
  <2>2. todo'[q] = Call(p).failure
    BY <1>1, <1>8, TodoStep
  <2>3. FailureOK(program, p, Call(p).failure)
    BY <1>1, <2>1, ForkFacts
  <2> QED BY <2>2, <2>3 DEF FailureOK, Has
<1>9. CASE q = p /\ Loops(p)
  <2>1. fds'[q] = fds[q] /\ todo'[q] = todo[q]
    <3>1. ~Dies(p)
      BY <1>9 DEF Loops, Dies
    <3> QED BY <1>1, <1>9, <3>1, FdsStep, TodoStep DEF Loops
  <2> QED BY <2>1 DEF EndsOpen
<1>10. CASE q = p /\ Call(p).call # "pipe" /\ (Advances(p) \/ Forks(p))
  <2>1. Call(p).call # "exit" /\ todo'[p] = Tail(todo[p]) /\ ~Dies(p)
    <3>1. ~Dies(p)
      <4>1. todo'[p] = Tail(todo[p]) /\ Call(p).call # "exit"
        BY <1>1, <1>10, TodoStep DEF Advances, Forks
      <4>2. todo'[p] # <<>>
        BY <1>1, <4>1, TailOfTodo
      <4> QED BY <1>1, <4>2, TodoStep
    <3> QED BY <1>1, <1>10, <3>1, TodoStep DEF Advances, Forks
  <2>2. ~Has(todo[p], "pipe")
    BY <1>1, <1>10, <2>1, TailHas
  <2>3. /\ Has(todo[p], "fork") => fds[p] = Ends
        /\ \A d \in Range(todo[p]) : d.call = "close" => d.end \in fds[p]
    BY <2>2 DEF EndsOpen
  <2>4. CASE Call(p).call = "close"
    <3>1. fds'[p] = fds[p] \ {Call(p).end}
      BY <2>4, FdsStep
    <3>2. ASSUME NEW d \in Range(Tail(todo[p]))
          PROVE  /\ d.call # "fork"
                 /\ d.call = "close" => d.end \in fds[p] /\ d.end # Call(p).end
      <4>1. MayPrecede(program, p, Call(p), d) /\ d \in Range(todo[p])
        BY <1>1, <2>1, TailOfTodo
      <4> QED BY <2>3, <2>4, <4>1 DEF MayPrecede
    <3> QED BY <1>10, <2>1, <3>1, <3>2 DEF Has
  <2>5. CASE Call(p).call # "close"
    <3>1. fds'[p] = fds[p]
      BY <1>10, <2>1, <2>5, FdsStep
    <3>2. Range(Tail(todo[p])) \subseteq Range(todo[p])
      BY <1>1, <2>1, TailOfTodo
    <3> QED BY <1>10, <2>1, <2>3, <3>1, <3>2 DEF Has
  <2> QED BY <2>4, <2>5
<1> QED BY <1>1, <1>4, <1>5, <1>6, <1>7, <1>8, <1>9, <1>10 DEF Moves, Dies

-----------------------------------------------------------------------------
(* 10. The messages of partB.c *)

\* Who reads what a process writes.
Reader == [parent |-> "child", child |-> "grandchild", grandchild |-> "parent"]

Readers(x) == HasOpen(<<x, "r">>)
Writers(x) == HasOpen(<<x, "w">>)

\* Process p will still make this call if no fork fails.
Later(p, name) == ~Born(p) \/ Has(todo[p], name)

\* How far the message of w has come.
Message(w) == <<Sent[w], "\n">>
Newline    == <<"\n">>
Text(w)    == <<Sent[w]>>

Delivery(w) ==
  LET r == Reader[w]
      x == Out[w]
  IN \/ /\ Later(w, "write") /\ pipe[x] = <<>>
        /\ Later(r, "read") /\ got[r] = <<>>
     \/ /\ ~Later(w, "write") /\ pipe[x] = Message(w)
        /\ Later(r, "read") /\ got[r] = <<>>
     \/ /\ ~Later(w, "write") /\ pipe[x] = Newline
        /\ Later(r, "read") /\ got[r] = Text(w) /\ Born(r)
     \/ /\ ~Later(w, "write") /\ pipe[x] = <<>>
        /\ ~Later(r, "read") /\ got[r] = Text(w)

Delivered ==
  program = "partB" /\ ~failed =>
    /\ \A w \in Procs : Delivery(w)
    /\ \A p \in Procs : Ended(p) => status[p] = 0

LEMMA RingFacts ==
  /\ \A w \in Procs : /\ Reader[w] \in Procs /\ Reader[w] # w
                      /\ Out[w] \in Pipes /\ In[w] \in Pipes
                      /\ In[Reader[w]] = Out[w] /\ Sent[w] # "\n"
  /\ \A v, w \in Procs : v # w => Out[v] # Out[w] /\ In[v] # In[w]
  /\ \A r \in Procs : \E w \in Procs : Reader[w] = r
BY DEF Procs, Reader, Out, In, Sent, Pipes

LEMMA MessageFacts ==
  ASSUME NEW w \in Procs
  PROVE  /\ <<>> \o Message(w) = Message(w)
         /\ Message(w) # <<>> /\ Newline # <<>>
         /\ Head(Message(w)) = Sent[w] /\ Tail(Message(w)) = Newline
         /\ Head(Newline) = "\n" /\ Tail(Newline) = <<>>
         /\ Append(<<>>, Sent[w]) = Text(w)
BY DEF Message, Newline, Text

LEMMA PipesStep ==
  ASSUME Family, Typed, NEW p \in Procs, Step(p)
  PROVE  /\ Call(p).call \notin {"read", "write"} => UNCHANGED <<pipe, got>>
         /\ Call(p).call = "write" =>
              /\ got' = got
              /\ \/ /\ Advances(p)
                    /\ pipe' = [pipe EXCEPT ![Call(p).pipe] = @ \o Call(p).items]
                 \/ Dies(p) /\ Readers(Call(p).pipe) = {}
         /\ Call(p).call = "read" =>
              \/ /\ pipe[Call(p).pipe] # <<>> /\ Advances(p) /\ got' = got
                 /\ Head(pipe[Call(p).pipe]) = "\n"
                 /\ pipe' = [pipe EXCEPT ![Call(p).pipe] = Tail(@)]
              \/ /\ pipe[Call(p).pipe] # <<>> /\ Loops(p)
                 /\ Head(pipe[Call(p).pipe]) # "\n"
                 /\ got' = [got EXCEPT ![p] = Append(@, Head(pipe[Call(p).pipe]))]
                 /\ pipe' = [pipe EXCEPT ![Call(p).pipe] = Tail(@)]
              \/ /\ pipe[Call(p).pipe] = <<>> /\ Advances(p)
                 /\ Writers(Call(p).pipe) = {} /\ UNCHANGED <<pipe, got>>
<1>1. CASE write(p)
  <2>1. Call(p).call = "write"
    BY <1>1 DEF write, Calls, Call
  <2>2. got' = got
    BY <1>1 DEF write, End
  <2>3. \/ /\ Advances(p)
           /\ pipe' = [pipe EXCEPT ![Call(p).pipe] = @ \o Call(p).items]
        \/ Dies(p) /\ Readers(Call(p).pipe) = {}
    BY <1>1, <2>1 DEF write, End, Return_from, Advances, Dies, Readers
  <2> QED BY <2>1, <2>2, <2>3
<1>2. CASE read(p)
  <2>1. Call(p).call = "read"
    BY <1>2 DEF read, Calls, Call
  <2> DEFINE x == Call(p).pipe
  <2>2. UNCHANGED <<state, failed>>
    BY <1>2 DEF read
  <2>3. \/ /\ pipe[x] # <<>>
           /\ pipe' = [pipe EXCEPT ![x] = Tail(@)]
           /\ \/ Head(pipe[x]) = "\n" /\ Return_from(p) /\ UNCHANGED got
              \/ /\ Head(pipe[x]) # "\n"
                 /\ got' = [got EXCEPT ![p] = Append(@, Head(pipe[x]))] /\ UNCHANGED todo
        \/ /\ pipe[x] = <<>> /\ Writers(x) = {}
           /\ Return_from(p)
           /\ UNCHANGED <<pipe, got>>
    BY <1>2 DEF read, Writers
  <2> HIDE DEF x
  <2>4. Return_from(p) => Advances(p)
    BY <2>1, <2>2 DEF Return_from, Advances
  <2>5. UNCHANGED todo => Loops(p)
    BY <2>1, <2>2 DEF Loops
  <2>6. \/ /\ pipe[x] # <<>> /\ Advances(p) /\ got' = got
           /\ Head(pipe[x]) = "\n"
           /\ pipe' = [pipe EXCEPT ![x] = Tail(@)]
        \/ /\ pipe[x] # <<>> /\ Loops(p)
           /\ Head(pipe[x]) # "\n"
           /\ got' = [got EXCEPT ![p] = Append(@, Head(pipe[x]))]
           /\ pipe' = [pipe EXCEPT ![x] = Tail(@)]
        \/ /\ pipe[x] = <<>> /\ Advances(p)
           /\ Writers(x) = {} /\ UNCHANGED <<pipe, got>>
    BY <2>3, <2>4, <2>5
  <2> QED BY <2>1, <2>6 DEF x
<1>3. CASE printf(p) \/ endl(p) \/ write1(p) \/ increment(p) \/ scanf(p) \/ fork(p)
           \/ exit(p) \/ wait(p) \/ makePipes(p) \/ close(p)
  <2>1. UNCHANGED <<pipe, got>>
    BY <1>3 DEF printf, endl, write1, increment, scanf, fork, exit, wait, makePipes, close,
                End, files
  <2>2. Call(p).call \notin {"read", "write"}
    BY <1>3 DEF printf, endl, write1, increment, scanf, fork, exit, wait, makePipes, close,
                Calls, Call
  <2> QED BY <2>1, <2>2
<1> QED BY <1>1, <1>2, <1>3 DEF Step, Runs

LEMMA LaterStep ==
  ASSUME Family, program = "partB", NEW p \in Procs, Moves(p), ~failed',
         ~(Dies(p) /\ Call(p).call = "write"),
         NEW q \in Procs, NEW name \in {"read", "write"},
         ~(q = p /\ Call(p).call = name)
  PROVE  Later(q, name)' <=> Later(q, name)
<1>1. state[p] = "running"
  BY DEF Moves
<1>2. ~Fails(p)
  BY DEF Fails
<1>3. CASE Forks(p) /\ q = Call(p).who
  <2>1. ~Born(q) /\ Member(program, q)
    BY <1>1, <1>3, ForkFacts DEF Forks
  <2>2. Has(Programs[program][q], name)
    BY <2>1, AllScripts DEF Family
  <2>3. todo'[q] = Programs[program][q]
    BY <1>3, TodoStep
  <2> QED BY <2>1, <2>2, <2>3 DEF Later
<1>4. CASE ~(Forks(p) /\ q = Call(p).who)
  <2>1. Born(q)' <=> Born(q)
    BY <1>4, StaysEnded
  <2>2. CASE q # p
    BY <1>4, <2>1, <2>2, TodoStep DEF Later
  <2>3. CASE q = p /\ (Advances(p) \/ Forks(p))
    <3>1. Has(Tail(todo[p]), name) <=> Has(todo[p], name)
      BY <1>1, <2>3, TailHas DEF Advances, Forks
    <3>2. todo'[p] = Tail(todo[p])
      BY <2>3, TodoStep
    <3> QED BY <2>1, <2>3, <3>1, <3>2 DEF Later
  <2>4. CASE q = p /\ Loops(p)
    BY <2>1, <2>4, TodoStep DEF Later
  <2>5. CASE q = p /\ Dies(p)
    <3>1. Call(p).call = "exit"
      BY <2>5 DEF Dies
    <3>2. ~Has(todo[p], name)
      BY <1>1, <3>1, CallFacts DEF Has
    <3>3. ~Has(todo'[p], name)
      BY <2>5, TodoStep, HasEmpty
    <3> QED BY <2>1, <2>5, <3>2, <3>3 DEF Later
  <2> QED BY <1>2, <2>2, <2>3, <2>4, <2>5 DEF Moves
<1> QED BY <1>3, <1>4

LEMMA LaterDone ==
  ASSUME Family, NEW p \in Procs, Moves(p), Advances(p),
         NEW name \in {"read", "write"}, Call(p).call = name
  PROVE  ~Later(p, name)'
<1>1. state[p] = "running" /\ todo'[p] = Tail(todo[p])
  BY TodoStep DEF Moves
<1>2. ~Has(Tail(todo[p]), name)
  BY <1>1, TailHas
<1>3. Born(p)'
  BY <1>1, StaysEnded DEF Born
<1> QED BY <1>1, <1>2, <1>3 DEF Later

\* Once the child lives, nobody makes pipes any more.
LEMMA PipesMade ==
  ASSUME Family, Born("child"), NEW p \in Procs
  PROVE  ~Has(todo[p], "pipe")
<1> SUFFICES ASSUME NEW d \in Range(todo[p]), d.call = "pipe" PROVE FALSE
  BY DEF Has
<1>1. p = "parent"
  BY DEF Family, Script, CallOK
<1>2. Has(todo["parent"], "fork")
  BY <1>1 DEF Family, Script, Followed
<1> QED BY <1>2, ParentFacts DEF Family

LEMMA TwoBorn ==
  ASSUME Family, NEW p \in Procs, NEW q \in Procs, p # q, Born(p), Born(q)
  PROVE  Born("child")
BY ParentFacts DEF Family, Procs

\* A process with a read or a write ahead has the end open that the other side
\* needs.
LEMMA OpenEnd ==
  ASSUME Family, EndsOpen, program = "partB", Born("child"), NEW r \in Procs
  PROVE  /\ Has(todo[r], "read") => r \in Readers(In[r])
         /\ Has(todo[r], "write") => r \in Writers(Out[r])
<1>1. ~Has(todo[r], "pipe")
  BY PipesMade
<1>2. Script(program, r, todo[r])
  BY DEF Family
<1>3. \A d \in Range(todo[r]) : d.call = "close" => d.end \in fds[r]
  BY <1>1 DEF EndsOpen
<1>4. ASSUME Has(todo[r], "read")
      PROVE  r \in Readers(In[r])
  <2>1. PICK c \in Range(todo[r]) : c.call = "read"
    BY <1>4 DEF Has
  <2>2. c.pipe = In[r] /\ Closes(todo[r], c.pipe, "r")
    BY <1>2, <2>1 DEF Script, CallOK, Followed
  <2>3. <<In[r], "r">> \in fds[r]
    BY <1>3, <2>2 DEF Closes
  <2> QED BY <2>3 DEF Readers, HasOpen
<1>5. ASSUME Has(todo[r], "write")
      PROVE  r \in Writers(Out[r])
  <2>1. PICK c \in Range(todo[r]) : c.call = "write"
    BY <1>5 DEF Has
  <2>2. c.pipe = Out[r] /\ Closes(todo[r], c.pipe, "w")
    BY <1>2, <2>1 DEF Script, CallOK, Followed
  <2>3. <<Out[r], "w">> \in fds[r]
    BY <1>3, <2>2 DEF Closes
  <2> QED BY <2>3 DEF Writers, HasOpen
<1> QED BY <1>4, <1>5

\* Nobody is killed by a write: the reader has its end open.
LEMMA ReaderThere ==
  ASSUME Family, EndsOpen, ForkLater, program = "partB", ~failed,
         NEW p \in Procs, state[p] = "running", Call(p).call = "write",
         Later(Reader[p], "read")
  PROVE  Readers(Out[p]) # {}
<1> DEFINE r == Reader[p]
<1>1. r \in Procs /\ r # p /\ In[r] = Out[p]
  BY RingFacts
<1>2. Born(p)
  BY DEF Born
<1>3. CASE Born(r)
  <2>1. Born("child") /\ Has(todo[r], "read")
    BY <1>1, <1>2, <1>3, TwoBorn DEF Later
  <2> QED BY <1>1, <2>1, OpenEnd
<1>4. CASE ~Born(r)
  <2>1. r \in DOMAIN Parent /\ Parent[r] = p
    BY <1>4, ParentFacts DEF Family, Procs, Reader
  <2>2. Has(todo[p], "fork")
    BY <1>2, <1>4, <2>1 DEF ForkLater
  <2>3. PICK d \in Range(todo[p]) : d.call = "fork"
    BY <2>2 DEF Has
  <2>4. MayPrecede(program, p, Call(p), d)
    BY <2>3, CallFacts
  <2> QED BY <2>3, <2>4 DEF MayPrecede
<1> QED BY <1>3, <1>4

\* Nobody reads the end of a file too early: the writer has its end open.
LEMMA WriterThere ==
  ASSUME Family, EndsOpen, ForkLater, Waits, program = "partB", ~failed,
         NEW w \in Procs, NEW r \in Procs, Reader[w] = r,
         state[r] = "running", Call(r).call = "read", Later(w, "write")
  PROVE  Writers(In[r]) # {}
<1>1. r # w /\ In[r] = Out[w] /\ Born(r)
  BY RingFacts DEF Born
<1>2. CASE Born(w)
  <2>1. Born("child") /\ Has(todo[w], "write")
    BY <1>1, <1>2, TwoBorn DEF Later
  <2> QED BY <1>1, <2>1, OpenEnd
<1>3. CASE ~Born(w)
  <2>1. w = "grandchild" /\ r = "parent"
    <3>1. w # "parent"
      BY <1>3 DEF Family
    <3>2. w # "child"
      BY <1>1, <1>3, ParentFacts DEF Family, Reader
    <3> QED BY <3>1, <3>2 DEF Procs, Reader
  <2>2. \A d \in Range(todo[r]) : d.call \notin {"fork", "wait"}
    <3> SUFFICES ASSUME NEW d \in Range(todo[r]), d.call \in {"fork", "wait"} PROVE FALSE
      OBVIOUS
    <3>1. d # Call(r)
      OBVIOUS
    <3>2. MayPrecede(program, r, Call(r), d)
      BY <3>1, CallFacts
    <3> QED BY <2>1, <3>2 DEF MayPrecede
  <2>3. ~Has(todo["parent"], "fork") /\ ~Has(todo["parent"], "wait")
    BY <2>1, <2>2 DEF Has
  <2>4. Born("child")
    BY <1>1, <2>1, <2>3, ParentFacts DEF ForkLater
  <2>5. Has(todo["child"], "fork")
    BY <1>3, <2>1, <2>4, ParentFacts DEF ForkLater
  <2>6. state["child"] = "running"
    BY <2>5, HasEmpty DEF Family, Procs
  <2>7. Has(todo["parent"], "wait")
    BY <2>1, <2>6, ParentFacts DEF Waits, Ordered
  <2> QED BY <2>3, <2>7
<1> QED BY <1>2, <1>3

LEMMA NoSignal ==
  ASSUME Family, Typed, EndsOpen, ForkLater, Delivered, program = "partB", ~failed,
         NEW p \in Procs, Step(p)
  PROVE  ~(Dies(p) /\ Call(p).call = "write")
<1> SUFFICES ASSUME Dies(p), Call(p).call = "write" PROVE FALSE
  OBVIOUS
<1>1. state[p] = "running" /\ Moves(p)
  BY StepRuns, StepMoves
<1>2. Has(todo[p], "write") /\ CallOK(program, p, Call(p))
  BY <1>1, CallFacts
<1>3. Later(p, "write")
  BY <1>2 DEF Later
<1>4. Later(Reader[p], "read")
  BY <1>3 DEF Delivered, Delivery
<1>5. Readers(Out[p]) # {}
  BY <1>1, <1>4, ReaderThere
<1>6. Call(p).pipe = Out[p]
  BY <1>2 DEF CallOK
<1>7. Readers(Out[p]) = {}
  <2>1. ~Advances(p)
    BY <1>1, TodoStep, TailOfTodo DEF Advances
  <2> QED BY <1>6, <2>1, PipesStep
<1> QED BY <1>5, <1>7

LEMMA DeliveryStep ==
  ASSUME Family, Typed, EndsOpen, ForkLater, Waits, Delivered, program = "partB",
         ~failed, ~failed', NEW p \in Procs, Step(p), NEW w \in Procs
  PROVE  Delivery(w)'
<1> DEFINE r == Reader[w]
           x == Out[w]
<1>1. /\ state[p] = "running" /\ Moves(p) /\ ~(Dies(p) /\ Call(p).call = "write")
      /\ program' = "partB"
  BY StepRuns, StepMoves, NoSignal DEF Moves
<1>2. /\ r \in Procs /\ r # w /\ x \in Pipes /\ In[r] = x /\ Sent[w] # "\n"
      /\ \A v \in Procs : (v # w => Out[v] # x) /\ (v # r => In[v] # x)
  BY RingFacts
<1>3. CallOK(program, p, Call(p)) /\ Has(todo[p], Call(p).call)
  BY <1>1, CallFacts
<1>4. /\ pipe = [y \in Pipes |-> pipe[y]] /\ got = [q \in Procs |-> got[q]]
  BY DEF Typed
<1>5. Delivery(w)
  BY DEF Delivered
<1>6. Born(r) => Born(r)'
  BY <1>1, <1>2, StaysEnded
<1>7. ~(p = w /\ Call(p).call = "write") => (Later(w, "write")' <=> Later(w, "write"))
  BY <1>1, LaterStep
<1>8. ~(p = r /\ Call(p).call = "read") => (Later(r, "read")' <=> Later(r, "read"))
  BY <1>1, <1>2, LaterStep
<1>9. /\ <<>> \o Message(w) = Message(w)
      /\ Message(w) # <<>> /\ Newline # <<>>
      /\ Head(Message(w)) = Sent[w] /\ Tail(Message(w)) = Newline
      /\ Head(Newline) = "\n" /\ Tail(Newline) = <<>>
      /\ Append(<<>>, Sent[w]) = Text(w)
  BY MessageFacts
<1> HIDE DEF r, x
<1>10. \/ Later(w, "write") /\ pipe[x] = <<>> /\ Later(r, "read") /\ got[r] = <<>>
       \/ ~Later(w, "write") /\ pipe[x] = Message(w) /\ Later(r, "read") /\ got[r] = <<>>
       \/ /\ ~Later(w, "write") /\ pipe[x] = Newline
          /\ Later(r, "read") /\ got[r] = Text(w) /\ Born(r)
       \/ ~Later(w, "write") /\ pipe[x] = <<>> /\ ~Later(r, "read") /\ got[r] = Text(w)
  BY <1>5 DEF Delivery, r, x
<1>11. SUFFICES
         \/ Later(w, "write")' /\ pipe'[x] = <<>> /\ Later(r, "read")' /\ got'[r] = <<>>
         \/ /\ ~Later(w, "write")' /\ pipe'[x] = Message(w)
            /\ Later(r, "read")' /\ got'[r] = <<>>
         \/ /\ ~Later(w, "write")' /\ pipe'[x] = Newline
            /\ Later(r, "read")' /\ got'[r] = Text(w) /\ Born(r)'
         \/ /\ ~Later(w, "write")' /\ pipe'[x] = <<>>
            /\ ~Later(r, "read")' /\ got'[r] = Text(w)
  BY DEF Delivery, r, x
<1>12. CASE /\ pipe'[x] = pipe[x] /\ got'[r] = got[r]
            /\ ~(p = w /\ Call(p).call = "write") /\ ~(p = r /\ Call(p).call = "read")
  BY <1>6, <1>7, <1>8, <1>10, <1>12
<1>13. CASE Call(p).call \notin {"read", "write"}
  BY <1>12, <1>13, PipesStep
<1>14. CASE Call(p).call = "write"
  <2>1. /\ got' = got /\ Advances(p)
        /\ pipe' = [pipe EXCEPT ![Call(p).pipe] = @ \o Call(p).items]
    BY <1>1, <1>14, PipesStep
  <2>2. Call(p).pipe = Out[p] /\ Out[p] \in Pipes
    BY <1>3, <1>14, RingFacts DEF CallOK
  <2>3. CASE p # w
    <3>1. pipe'[x] = pipe[x]
      BY <1>2, <1>4, <2>1, <2>2, <2>3
    <3> QED BY <1>12, <1>14, <2>1, <2>3, <3>1
  <2>4. CASE p = w
    <3>1. Later(w, "write")
      BY <1>3, <1>14, <2>4 DEF Later
    <3>2. pipe[x] = <<>> /\ Later(r, "read") /\ got[r] = <<>>
      BY <1>10, <3>1
    <3>3. Call(p).items = Message(w) /\ Call(p).pipe = x
      BY <1>3, <1>14, <2>2, <2>4 DEF CallOK, Message, x
    <3>4. pipe'[x] = Message(w)
      BY <1>2, <1>4, <1>9, <2>1, <3>2, <3>3
    <3>5. ~Later(w, "write")'
      BY <1>1, <1>14, <2>1, <2>4, LaterDone
    <3> QED BY <1>8, <1>14, <2>1, <3>2, <3>4, <3>5
  <2> QED BY <2>3, <2>4
<1>15. CASE Call(p).call = "read"
  <2>1. Call(p).pipe = In[p] /\ In[p] \in Pipes
    BY <1>3, <1>15, RingFacts DEF CallOK
  <2>2. CASE p # r
    <3>1. pipe'[x] = pipe[x] /\ got'[r] = got[r]
      <4>1. In[p] # x
        BY <1>2, <2>2
      <4>2. \/ pipe' = [pipe EXCEPT ![In[p]] = Tail(@)]
            \/ pipe' = pipe
        BY <1>15, <2>1, PipesStep
      <4>3. \/ got' = [got EXCEPT ![p] = Append(@, Head(pipe[In[p]]))]
            \/ got' = got
        BY <1>15, <2>1, PipesStep
      <4> QED BY <1>2, <1>4, <2>2, <4>1, <4>2, <4>3
    <3> QED BY <1>12, <1>15, <2>2, <3>1
  <2>3. CASE p = r
    <3>1. Call(p).pipe = x /\ Later(r, "read") /\ Born(r)
      BY <1>1, <1>2, <1>3, <1>15, <2>1, <2>3 DEF Later, Born
    <3>2. Later(w, "write")' <=> Later(w, "write")
      BY <1>7, <1>15
    <3>3. \/ /\ pipe[x] # <<>> /\ Advances(p) /\ got' = got
             /\ Head(pipe[x]) = "\n"
             /\ pipe' = [pipe EXCEPT ![x] = Tail(@)]
          \/ /\ pipe[x] # <<>> /\ Loops(p)
             /\ Head(pipe[x]) # "\n"
             /\ got' = [got EXCEPT ![p] = Append(@, Head(pipe[x]))]
             /\ pipe' = [pipe EXCEPT ![x] = Tail(@)]
          \/ /\ pipe[x] = <<>> /\ Writers(x) = {}
      BY <1>15, <3>1, PipesStep
    <3>4. CASE Advances(p) /\ pipe[x] # <<>> /\ Head(pipe[x]) = "\n"
               /\ got' = got /\ pipe' = [pipe EXCEPT ![x] = Tail(@)]
      <4>1. ~Later(w, "write") /\ pipe[x] = Newline /\ got[r] = Text(w)
        BY <1>2, <1>9, <1>10, <3>1, <3>4
      <4>2. pipe'[x] = <<>>
        BY <1>2, <1>4, <1>9, <3>4, <4>1
      <4>3. ~Later(r, "read")'
        BY <1>1, <1>15, <2>3, <3>4, LaterDone
      <4> QED BY <3>2, <3>4, <4>1, <4>2, <4>3
    <3>5. CASE /\ Loops(p) /\ pipe[x] # <<>> /\ Head(pipe[x]) # "\n"
               /\ got' = [got EXCEPT ![p] = Append(@, Head(pipe[x]))]
               /\ pipe' = [pipe EXCEPT ![x] = Tail(@)]
      <4>1. ~Later(w, "write") /\ pipe[x] = Message(w) /\ got[r] = <<>>
        BY <1>2, <1>9, <1>10, <3>1, <3>5
      <4>2. pipe'[x] = Newline
        BY <1>2, <1>4, <1>9, <3>5, <4>1
      <4>3. got'[r] = Text(w)
        BY <1>2, <1>4, <1>9, <2>3, <3>5, <4>1
      <4>4. Later(r, "read")'
        <5>1. todo'[r] = todo[r] /\ state'[r] = state[r]
          BY <1>1, <2>3, <3>5, TodoStep DEF Loops
        <5> QED BY <3>1, <5>1 DEF Later, Born
      <4> QED BY <1>6, <3>1, <3>2, <4>1, <4>2, <4>3, <4>4
    <3>6. CASE pipe[x] = <<>> /\ Writers(x) = {}
      <4>1. Later(w, "write")
        BY <1>9, <1>10, <3>1, <3>6
      <4>2. Writers(In[r]) # {}
        BY <1>1, <1>2, <1>15, <2>3, <4>1, WriterThere DEF r
      <4> QED BY <1>2, <3>6, <4>2
    <3> QED BY <3>3, <3>4, <3>5, <3>6
  <2> QED BY <2>2, <2>3
<1> QED BY <1>13, <1>14, <1>15

LEMMA DeliveredStep ==
  ASSUME Family, Typed, EndsOpen, ForkLater, Waits, Delivered, NEW p \in Procs, Step(p)
  PROVE  Delivered'
<1>1. state[p] = "running" /\ Moves(p) /\ program' = program
  BY StepRuns, StepMoves DEF Moves
<1> SUFFICES ASSUME program = "partB", ~failed'
             PROVE  /\ \A w \in Procs : Delivery(w)'
                    /\ \A q \in Procs : Ended(q)' => status'[q] = 0
  BY <1>1 DEF Delivered
<1>2. ~failed
  BY <1>1 DEF Moves, Advances, Loops, Forks, Fails, Dies
<1>3. \A w \in Procs : Delivery(w)'
  BY <1>2, DeliveryStep
<1>4. ASSUME NEW q \in Procs, Ended(q)'
      PROVE  status'[q] = 0
  <2>1. CASE Ended(q)
    <3>1. q # p
      BY <1>1, <2>1 DEF Ended
    <3> QED BY <1>2, <2>1, <3>1, StatusStep DEF Delivered
  <2>2. CASE ~Ended(q)
    <3>1. Dies(p) /\ q = p
      BY <1>1, <1>4, <2>2, StaysEnded
    <3>2. Call(p).call = "exit"
      BY <1>2, <3>1, NoSignal DEF Dies
    <3>3. Call(p).value = "zero"
      BY <1>1, <3>2, CallFacts DEF CallOK, PlainOK
    <3>4. ExitValue(p) = 0
      BY <3>3 DEF ExitValue
    <3>5. status'[p] = 256 * (ExitValue(p) % 256)
      BY <3>2, StatusStep
    <3> QED BY <3>1, <3>4, <3>5
  <2> QED BY <2>1, <2>2
<1> QED BY <1>3, <1>4

PipesKept == Waits /\ ForkLater /\ EndsOpen /\ Delivered

LEMMA PipesInit == Init => PipesKept
<1> SUFFICES ASSUME Init PROVE PipesKept
  OBVIOUS
<1>1. /\ state = [p \in Procs |-> IF p = "parent" THEN "running" ELSE "unborn"]
      /\ todo = [p \in Procs |-> IF p = "parent" THEN Programs[program].parent ELSE <<>>]
      /\ program \in DOMAIN Programs
      /\ pipe = [x \in Pipes |-> <<>>] /\ got = [p \in Procs |-> <<>>]
  BY DEF Init
<1>2. "parent" \in Procs /\ \A q \in DOMAIN Parent : q \in Procs /\ q # "parent"
  BY ParentFacts DEF Procs
<1>3. todo["parent"] = Programs[program]["parent"]
  BY <1>1, <1>2
<1>4. /\ \A q \in Procs : q # "parent" => state[q] = "unborn" /\ todo[q] = <<>>
      /\ state["parent"] = "running"
  BY <1>1, <1>2
<1>5. /\ Has(todo["parent"], "fork")
      /\ program = "partB" =>
           /\ Has(todo["parent"], "pipe")
           /\ Has(todo["parent"], "read") /\ Has(todo["parent"], "write")
  BY <1>1, <1>3, AllScripts DEF Member
<1>6. Waits
  BY <1>2, <1>4 DEF Waits
<1>7. ForkLater
  <2> SUFFICES ASSUME NEW q \in DOMAIN Parent, Born(Parent[q])
               PROVE  Has(todo[Parent[q]], "fork")
    BY DEF ForkLater
  <2>1. Parent[q] = "parent"
    BY <1>2, <1>4, ParentFacts DEF Born
  <2> QED BY <1>5, <2>1
<1>8. EndsOpen
  <2> SUFFICES ASSUME program = "partB", NEW p \in Procs, ~Has(todo[p], "pipe")
               PROVE  /\ Has(todo[p], "fork") => fds[p] = Ends
                      /\ \A d \in Range(todo[p]) : d.call = "close" => d.end \in fds[p]
    BY DEF EndsOpen
  <2>1. p # "parent"
    BY <1>5
  <2>2. todo[p] = <<>>
    BY <1>4, <2>1
  <2> QED BY <2>2, HasEmpty, ScriptEmpty
<1>9. Delivered
  <2> SUFFICES ASSUME program = "partB"
               PROVE  /\ \A w \in Procs : Delivery(w)
                      /\ \A p \in Procs : ~Ended(p)
    BY DEF Delivered
  <2>1. \A p \in Procs : ~Ended(p)
    BY <1>4 DEF Ended
  <2>2. \A p \in Procs : Later(p, "read") /\ Later(p, "write")
    BY <1>4, <1>5 DEF Later, Born
  <2>3. ASSUME NEW w \in Procs
        PROVE  Delivery(w)
    <3>1. pipe[Out[w]] = <<>> /\ got[Reader[w]] = <<>> /\ Reader[w] \in Procs
      BY <1>1, RingFacts
    <3> QED BY <2>2, <3>1 DEF Delivery
  <2> QED BY <2>1, <2>3
<1> QED BY <1>6, <1>7, <1>8, <1>9 DEF PipesKept

LEMMA PipesStay == Spec => []PipesKept
<1>1. Init => PipesKept
  BY PipesInit
<1>2. Kept /\ PipesKept /\ [Next]_vars => PipesKept'
  <2> SUFFICES ASSUME Kept, PipesKept, [Next]_vars PROVE PipesKept'
    OBVIOUS
  <2>1. ASSUME NEW p \in Procs, Step(p)
        PROVE  PipesKept'
    BY <2>1, StepMoves, WaitsStep, ForkLaterStep, EndsOpenStep, DeliveredStep
    DEF Kept, PipesKept
  <2>2. CASE UNCHANGED vars
    BY <2>2 DEF PipesKept, Waits, ForkLater, EndsOpen, Delivered, Delivery, Later, Born,
       Ended,
                vars, files, memory
  <2> QED BY <2>1, <2>2 DEF Next
<1> QED BY <1>1, <1>2, KeptStays, PTL DEF Spec

(* The invariant of the pipes of partB.c: if the forks succeed, a process  *)
(* that has ended has read all of its neighbour's message, and none was    *)
(* killed by a write, whatever the order in which they write, read, close  *)
(* and wait.                                                               *)
THEOREM MessagesCorrect == Spec => []MessagesDelivered
<1>1. Kept /\ PipesKept => MessagesDelivered
  <2> SUFFICES ASSUME Kept, PipesKept, program = "partB", ~failed,
                      NEW p \in Procs, state[p] \in {"zombie", "reaped"}
               PROVE  /\ status[p] = 0
                      /\ got[p] = CASE p = "parent" -> <<"from grandchild">>
                                    [] p = "child" -> <<"from parent">>
                                    [] p = "grandchild" -> <<"from child">>
    BY DEF MessagesDelivered
  <2>1. Delivered /\ Family
    BY DEF Kept, PipesKept
  <2>2. status[p] = 0
    BY <2>1 DEF Delivered, Ended
  <2>3. PICK w \in Procs : Reader[w] = p
    BY RingFacts
  <2>4. ~Later(p, "read")
    <3>1. todo[p] = <<>>
      BY <2>1 DEF Family
    <3> QED BY <3>1, HasEmpty DEF Later, Born
  <2>5. got[p] = Text(w)
    BY <2>1, <2>3, <2>4 DEF Delivered, Delivery
  <2>6. CASE p = "parent"
    <3>1. w = "grandchild"
      BY <2>3, <2>6 DEF Procs, Reader
    <3> QED BY <2>2, <2>5, <2>6, <3>1 DEF Text, Sent
  <2>7. CASE p = "child"
    <3>1. w = "parent"
      BY <2>3, <2>7 DEF Procs, Reader
    <3> QED BY <2>2, <2>5, <2>7, <3>1 DEF Text, Sent
  <2>8. CASE p = "grandchild"
    <3>1. w = "child"
      BY <2>3, <2>8 DEF Procs, Reader
    <3> QED BY <2>2, <2>5, <2>8, <3>1 DEF Text, Sent
  <2> QED BY <2>6, <2>7, <2>8 DEF Procs
<1> QED BY <1>1, KeptStays, PipesStay, PTL

-----------------------------------------------------------------------------
(* 11. The order of the output *)

\* The rank of the lines of a process.
Turn(p) == IF p = "parent" THEN 3 ELSE IF p = "child" /\ program # "partB" THEN 2 ELSE 1

\* A process has ended, or will never be.
Over(q) == Ended(q) \/ (~Born(q) /\ \A a \in Procs : ~Has(todo[a], "fork"))

\* The grandchild ends before the child.
GrandchildFirst ==
  program \in Ordered /\ Ended("child") => state["grandchild"] # "running"

\* Whoever prints before a line has ended by then.
EarlierOver ==
  program \in Ordered =>
    \A l \in AllLines : l.text \notin Free =>
      \A q \in Procs : Turn(q) < Rank(l) => Over(q)

\* A buffer holds what its process printed, and at a fork only what is outside
\* the order.
OwnTurn ==
  program \in Ordered =>
    \A p \in Procs : \A l \in Range(buffer[p]) : l.text \notin Free =>
      l.by = p /\ ~Has(todo[p], "fork")

LEMMA RankFacts ==
  ASSUME NEW l
  PROVE  /\ Rank(l) \in 0..3
         /\ l.text \in Free <=> Rank(l) = 0
         /\ l.text \notin Free /\ l.by \in Procs => Rank(l) = Turn(l.by)
<1>1. Free = {"Begin", "PARENT: I am the parent process!"}
  BY DEF Free
<1>2. Rank(l) = IF l.text \in Free THEN 0
                ELSE IF l.by = "parent" THEN 3
                ELSE IF l.by = "child" /\ program # "partB" THEN 2 ELSE 1
  BY <1>1, Zenon DEF Rank
<1>3. Rank(l) \in 0..3
  BY <1>2
<1>4. l.text \in Free <=> Rank(l) = 0
  BY <1>2
<1>5. l.text \notin Free => Rank(l) = Turn(l.by)
  BY <1>2 DEF Turn
<1> QED BY <1>3, <1>4, <1>5

LEMMA TurnFacts == \A p \in Procs : Turn(p) \in 1..3
BY DEF Turn

LEMMA GrandchildFirstStep ==
  ASSUME Family, Typed, EndsOpen, ForkLater, Waits, Delivered, GrandchildFirst,
         NEW p \in Procs, Step(p)
  PROVE  GrandchildFirst'
<1>1. state[p] = "running" /\ Moves(p) /\ program' = program
  BY StepRuns, StepMoves DEF Moves
<1> SUFFICES ASSUME program \in Ordered, Ended("child")', state'["grandchild"] = "running"
             PROVE  FALSE
  BY <1>1 DEF GrandchildFirst
<1>2. "child" \in Procs /\ "grandchild" \in Procs
  BY DEF Procs
<1>3. CASE Ended("child")
  <2>1. state["grandchild"] # "running" /\ p # "child"
    BY <1>1, <1>3 DEF GrandchildFirst, Ended
  <2>2. Forks(p) /\ "grandchild" = Call(p).who
    BY <1>1, <1>2, <2>1, StateStep
  <2>3. Parent["grandchild"] = p
    BY <1>1, <2>2, ForkFacts DEF Forks
  <2> QED BY <2>1, <2>3, ParentFacts
<1>4. CASE ~Ended("child")
  <2>1. Dies(p) /\ p = "child"
    BY <1>1, <1>2, <1>4, StaysEnded
  <2>2. ~Forks(p)
    BY <2>1 DEF Dies, Forks
  <2>3. state["grandchild"] = "running"
    BY <1>1, <1>2, <2>2, StateStep
  <2>4. ~failed
    BY <2>3 DEF Family, Born
  <2>5. Call(p).call = "exit"
    <3>1. Call(p).call = "write" => program = "partB"
      BY <1>1, CallFacts DEF CallOK
    <3> QED BY <2>1, <2>4, <3>1, NoSignal DEF Dies
  <2>6. ~Has(todo["child"], "wait")
    BY <1>1, <2>1, <2>5, CallFacts DEF Has
  <2>7. Has(todo["child"], "wait")
    BY <1>1, <2>1, <2>3, ParentFacts DEF Waits
  <2> QED BY <2>6, <2>7
<1> QED BY <1>3, <1>4

LEMMA NoForkStays ==
  ASSUME Family, NEW p \in Procs, Moves(p), NEW q \in Procs,
         ~(Forks(p) /\ q = Call(p).who), ~Has(todo[q], "fork")
  PROVE  ~Has(todo'[q], "fork")
<1> SUFFICES ASSUME NEW d \in Range(todo'[q]), d.call = "fork" PROVE FALSE
  BY DEF Has
<1>1. state[p] = "running"
  BY DEF Moves
<1>2. ~(Fails(p) /\ d \in Range(Call(p).failure))
  BY <1>1, ForkFacts DEF Fails, FailureOK
<1>3. d \in Range(todo[q])
  BY <1>2, TodoRange
<1> QED BY <1>3 DEF Has

LEMMA OverStays ==
  ASSUME Family, NEW p \in Procs, Moves(p), NEW q \in Procs, Over(q)
  PROVE  Over(q)'
<1>1. CASE Ended(q)
  BY <1>1, StaysEnded DEF Over
<1>2. CASE ~Born(q) /\ \A a \in Procs : ~Has(todo[a], "fork")
  <2>1. ~Forks(p)
    <3>1. Has(todo[p], Call(p).call)
      BY CallFacts DEF Moves
    <3> QED BY <1>2, <3>1 DEF Forks
  <2>2. ~Born(q)'
    BY <1>2, <2>1, StaysEnded
  <2>3. \A a \in Procs : ~Has(todo'[a], "fork")
    BY <1>2, <2>1, NoForkStays
  <2> QED BY <2>2, <2>3 DEF Over
<1> QED BY <1>1, <1>2 DEF Over

\* What must have happened when p prints a line that has a rank.
LEMMA PrintsInTurn ==
  ASSUME Family, Waits, GrandchildFirst, program \in Ordered,
         NEW p \in Procs, state[p] = "running", Says(Call(p)), Call(p).text \notin Free
  PROVE  /\ ~Has(todo[p], "fork")
         /\ \A q \in Procs : Turn(q) < Turn(p) => Over(q)
<1>1. \A d \in Range(todo[p]) :
        /\ d.call # "fork"
        /\ d.call = "wait" => program = "partB" /\ p = "child"
  <2> SUFFICES ASSUME NEW d \in Range(todo[p])
               PROVE  /\ d.call # "fork"
                      /\ d.call = "wait" => program = "partB" /\ p = "child"
    OBVIOUS
  <2>1. CASE d = Call(p)
    BY <2>1 DEF Says
  <2>2. CASE d # Call(p)
    <3>1. MayPrecede(program, p, Call(p), d)
      BY <2>2, CallFacts
    <3> QED BY <3>1 DEF MayPrecede
  <2> QED BY <2>1, <2>2
<1>2. ~Has(todo[p], "fork") /\ (Has(todo[p], "wait") => program = "partB" /\ p = "child")
  BY <1>1 DEF Has
<1>3. \A a \in Procs : state[a] # "running" => ~Has(todo[a], "fork")
  BY HasEmpty DEF Family
<1>4. ~Has(todo["grandchild"], "fork")
  BY ParentFacts DEF Family, Script, CallOK, Procs, Has
<1>5. ASSUME NEW q \in Procs, Turn(q) < Turn(p)
      PROVE  Over(q)
  <2>1. CASE p = "grandchild"
    BY <1>5, <2>1, TurnFacts DEF Turn
  <2>2. CASE p = "child" /\ program = "partB"
    BY <1>5, <2>2, TurnFacts DEF Turn
  <2>3. CASE p = "child" /\ program # "partB"
    <3>1. q = "grandchild"
      BY <1>5, <2>3 DEF Turn, Procs
    <3>2. state["grandchild"] \notin {"running", "zombie"}
      BY <1>2, <2>3, ParentFacts DEF Waits
    <3>3. ~Has(todo["parent"], "fork")
      BY <2>3, ParentFacts DEF Family, Born
    <3>4. \A a \in Procs : ~Has(todo[a], "fork")
      BY <1>2, <1>4, <2>3, <3>3 DEF Procs
    <3> QED BY <3>1, <3>2, <3>4 DEF Over, Ended, Born, Family
  <2>4. CASE p = "parent"
    <3>1. q \in {"child", "grandchild"}
      BY <1>5, <2>4 DEF Turn, Procs
    <3>2. state["child"] \notin {"running", "zombie"}
      BY <1>2, <2>4, ParentFacts DEF Waits
    <3>3. state["child"] \in {"unborn", "reaped"}
      BY <3>2 DEF Family, Procs
    <3>4. \A a \in Procs : ~Has(todo[a], "fork")
      <4>1. ~Has(todo["child"], "fork")
        BY <1>3, <3>2 DEF Procs
      <4> QED BY <1>2, <1>4, <2>4, <4>1 DEF Procs
    <3>5. state["grandchild"] # "running"
      <4>1. CASE state["child"] = "unborn"
        BY <4>1, ParentFacts DEF Family, Born
      <4>2. CASE state["child"] = "reaped"
        BY <4>2 DEF GrandchildFirst, Ended
      <4> QED BY <3>3, <4>1, <4>2
    <3>6. state[q] # "running" /\ state[q] \in {"unborn", "running", "zombie", "reaped"}
      BY <3>1, <3>2, <3>5 DEF Family
    <3> QED BY <3>4, <3>6 DEF Over, Ended, Born
  <2> QED BY <2>1, <2>2, <2>3, <2>4 DEF Procs
<1> QED BY <1>2, <1>5

\* The line that is printed, if it has a rank.
LEMMA LineInTurn ==
  ASSUME Family, Typed, Waits, GrandchildFirst, program \in Ordered,
         NEW p \in Procs, state[p] = "running",
         Says(Call(p)) \/ Call(p).call = "write1", Line(p).text \notin Free
  PROVE  /\ Says(Call(p)) /\ Line(p).by = p /\ Rank(Line(p)) = Turn(p)
         /\ ~Has(todo[p], "fork")
         /\ \A q \in Procs : Turn(q) < Turn(p) => Over(q)
<1>1. Says(Call(p))
  BY CallFacts DEF CallOK, PlainOK, Ordered
<1>2. Line(p).by = p /\ Line(p).text = Call(p).text
  BY <1>1, LineFacts
<1>3. Rank(Line(p)) = Turn(p)
  BY <1>2, RankFacts
<1>4. /\ ~Has(todo[p], "fork")
      /\ \A q \in Procs : Turn(q) < Turn(p) => Over(q)
  BY <1>1, <1>2, PrintsInTurn
<1> QED BY <1>1, <1>2, <1>3, <1>4

LEMMA EarlierOverStep ==
  ASSUME Family, Typed, Waits, GrandchildFirst, EarlierOver, NEW p \in Procs, Step(p)
  PROVE  EarlierOver'
<1>1. state[p] = "running" /\ Moves(p) /\ program' = program /\ Shows(p)
  BY StepRuns, StepMoves, StepShows DEF Moves
<1>2. /\ \A l : Rank(l)' = Rank(l)
      /\ \A q : Turn(q)' = Turn(q)
  BY <1>1 DEF Rank, Turn
<1> SUFFICES ASSUME program \in Ordered, NEW l \in AllLines', l.text \notin Free,
                    NEW q \in Procs, Turn(q) < Rank(l)
             PROVE  Over(q)'
  BY <1>1, <1>2 DEF EarlierOver
<1>3. Over(q)
  <2>1. CASE l \in AllLines
    BY <2>1 DEF EarlierOver
  <2>2. CASE l = Line(p) /\ (Says(Call(p)) \/ Call(p).call = "write1")
    BY <1>1, <2>2, LineInTurn
  <2> QED BY <1>1, <2>1, <2>2, NewLine
<1> QED BY <1>1, <1>3, OverStays

LEMMA OwnTurnStep ==
  ASSUME Family, Typed, Waits, GrandchildFirst, OwnTurn, NEW p \in Procs, Step(p)
  PROVE  OwnTurn'
<1>1. state[p] = "running" /\ Moves(p) /\ program' = program /\ Shows(p)
  BY StepRuns, StepMoves, StepShows DEF Moves
<1> SUFFICES ASSUME program \in Ordered, NEW q \in Procs, NEW l \in Range(buffer'[q]),
                    l.text \notin Free
             PROVE  l.by = q /\ ~Has(todo'[q], "fork")
  BY <1>1 DEF OwnTurn
<1>2. CASE q = p
  <2>1. l \in Range(buffer[p]) \/ (l = Line(p) /\ Says(Call(p)))
    BY <1>1, <1>2, ShowsRanges
  <2>2. l.by = p /\ ~Has(todo[p], "fork")
    <3>1. CASE l \in Range(buffer[p])
      BY <3>1 DEF OwnTurn
    <3>2. CASE l = Line(p) /\ Says(Call(p))
      BY <1>1, <3>2, LineInTurn
    <3> QED BY <2>1, <3>1, <3>2
  <2>3. ~(Forks(p) /\ q = Call(p).who)
    BY <1>1, <1>2, ForkFacts DEF Forks
  <2> QED BY <1>1, <1>2, <2>2, <2>3, NoForkStays
<1>3. CASE q # p /\ Forks(p) /\ q = Call(p).who
  <2>1. buffer'[q] = buffer[p]
    BY <1>1, <1>3, ShowsRanges
  <2>2. Has(todo[p], "fork")
    BY <1>1, <1>3, CallFacts DEF Forks
  <2> QED BY <2>1, <2>2 DEF OwnTurn
<1>4. CASE q # p /\ ~(Forks(p) /\ q = Call(p).who)
  <2>1. buffer'[q] = buffer[q]
    BY <1>1, <1>4, ShowsRanges
  <2>2. l.by = q /\ ~Has(todo[q], "fork")
    BY <2>1 DEF OwnTurn
  <2> QED BY <1>1, <1>4, <2>2, NoForkStays
<1> QED BY <1>2, <1>3, <1>4

\* Lines of the same turn, none earlier than what is there, keep the order.
LEMMA OrderJoin ==
  ASSUME NEW s \in Seq(Lines), NEW o \in Seq(Lines), NEW n \in 1..3,
         \A l \in Range(s) : Rank(l) > 0 => Rank(l) = n,
         \A l \in Range(o) : Rank(l) > 0 => Rank(l) <= n,
         \A i, k \in DOMAIN o : i < k /\ Rank(o[i]) > 0 /\ Rank(o[k]) > 0 =>
                                  Rank(o[i]) <= Rank(o[k])
  PROVE  \A i, k \in DOMAIN (o \o s) :
           i < k /\ Rank((o \o s)[i]) > 0 /\ Rank((o \o s)[k]) > 0 =>
             Rank((o \o s)[i]) <= Rank((o \o s)[k])
<1> DEFINE t == o \o s
<1>1. /\ DOMAIN t = 1..(Len(o) + Len(s)) /\ DOMAIN o = 1..Len(o) /\ DOMAIN s = 1..Len(s)
      /\ Len(o) \in Nat /\ Len(s) \in Nat
      /\ \A i \in 1..(Len(o) + Len(s)) : t[i] = IF i <= Len(o) THEN o[i] ELSE s[i - Len(o)]
  OBVIOUS
<1> HIDE DEF t
<1>2. ASSUME NEW i \in DOMAIN t, NEW k \in DOMAIN t, i < k, Rank(t[i]) > 0, Rank(t[k]) > 0
      PROVE  Rank(t[i]) <= Rank(t[k])
  <2>1. CASE k <= Len(o)
    <3>1. i \in DOMAIN o /\ k \in DOMAIN o /\ t[i] = o[i] /\ t[k] = o[k]
      BY <1>1, <1>2, <2>1
    <3> QED BY <1>2, <3>1
  <2>2. CASE ~(k <= Len(o))
    <3>1. k - Len(o) \in DOMAIN s /\ t[k] = s[k - Len(o)]
      BY <1>1, <2>2
    <3>2. t[k] \in Range(s)
      BY <3>1 DEF Range
    <3>3. Rank(t[k]) = n
      BY <1>2, <3>2
    <3>4. t[i] \in Range(o) \/ t[i] \in Range(s)
      <4>1. CASE i <= Len(o)
        BY <1>1, <4>1 DEF Range
      <4>2. CASE ~(i <= Len(o))
        <5>1. i - Len(o) \in DOMAIN s /\ t[i] = s[i - Len(o)]
          BY <1>1, <4>2
        <5> QED BY <5>1 DEF Range
      <4> QED BY <4>1, <4>2
    <3>5. Rank(t[i]) <= n
      <4>1. CASE t[i] \in Range(o)
        BY <1>2, <4>1
      <4>2. CASE t[i] \in Range(s)
        BY <1>2, <4>2
      <4> QED BY <3>4, <4>1, <4>2
    <3> QED BY <3>3, <3>5
  <2> QED BY <2>1, <2>2
<1> QED BY <1>2 DEF t

\* The order after a step, in terms of the ranks before it.
LEMMA OrderAfter ==
  ASSUME program' = program,
         program \in Ordered =>
           \A i, k \in DOMAIN output' :
             i < k /\ Rank(output'[i]) > 0 /\ Rank(output'[k]) > 0 =>
               Rank(output'[i]) <= Rank(output'[k])
  PROVE  OutputInOrder'
<1>1. \A i \in DOMAIN output' : Rank(output[i])' = Rank(output'[i])
  BY DEF Rank
<1> QED BY <1>1 DEF OutputInOrder, Ordered

\* An unchanged output keeps its order.
LEMMA OutputSame ==
  ASSUME UNCHANGED <<program, output>>, OutputInOrder
  PROVE  OutputInOrder'
BY OrderAfter DEF OutputInOrder, Ordered

LEMMA OutputStep ==
  ASSUME Family, Typed, Waits, GrandchildFirst, EarlierOver, OwnTurn, OutputInOrder,
         NEW p \in Procs, Step(p)
  PROVE  OutputInOrder'
<1>1. state[p] = "running" /\ Moves(p) /\ program' = program
  BY StepRuns, StepMoves DEF Moves
<1>2. Shows(p)
  BY StepShows
<1> SUFFICES ASSUME program \in Ordered
             PROVE  \A i, k \in DOMAIN output' :
                      i < k /\ Rank(output'[i]) > 0 /\ Rank(output'[k]) > 0 =>
                        Rank(output'[i]) <= Rank(output'[k])
  BY <1>1, OrderAfter
<1>3. \A i, k \in DOMAIN output :
        i < k /\ Rank(output[i]) > 0 /\ Rank(output[k]) > 0 =>
          Rank(output[i]) <= Rank(output[k])
  BY DEF OutputInOrder, Ordered
<1>4. /\ buffer \in [Procs -> Seq(Lines)] /\ output \in Seq(Lines)
         /\ buffer[p] \in Seq(Lines)
      /\ Turn(p) \in 1..3
  BY TurnFacts DEF Typed
<1>5. \A l \in Range(output) : Rank(l) > 0 => Rank(l) <= Turn(p)
  <2> SUFFICES ASSUME NEW l \in Range(output), Rank(l) > 0, Turn(p) < Rank(l)
               PROVE  FALSE
    BY <1>4, RankFacts
  <2>1. l.text \notin Free /\ l \in AllLines
    BY RankFacts DEF AllLines
  <2>2. Over(p)
    BY <2>1 DEF EarlierOver
  <2> QED BY <1>1, <2>2 DEF Over, Ended, Born
<1>6. \A l \in Range(buffer[p]) : Rank(l) > 0 => Rank(l) = Turn(p)
  <2> SUFFICES ASSUME NEW l \in Range(buffer[p]), Rank(l) > 0
               PROVE  Rank(l) = Turn(p)
    OBVIOUS
  <2>1. l.text \notin Free
    BY RankFacts
  <2>2. l.by = p
    BY <2>1 DEF OwnTurn
  <2> QED BY <2>1, <2>2, RankFacts
<1>7. CASE Flushes(p)
  <2> DEFINE s == Append(buffer[p], Line(p))
  <2>1. /\ Line(p) \in Lines /\ output' = output \o s
        /\ Line(p).text \notin Free => Rank(Line(p)) = Turn(p)
    BY <1>1, <1>7, LineFacts, LineInTurn DEF Flushes
  <2>2. s \in Seq(Lines)
    BY <1>4, <2>1
  <2>3. Range(s) = Range(buffer[p]) \cup {Line(p)}
    BY <1>4, RangeAppend
  <2> HIDE DEF s
  <2>4. \A l \in Range(s) : Rank(l) > 0 => Rank(l) = Turn(p)
    BY <1>6, <2>1, <2>3, RankFacts
  <2>5. \A i, k \in DOMAIN (output \o s) :
           i < k /\ Rank((output \o s)[i]) > 0 /\ Rank((output \o s)[k]) > 0 =>
             Rank((output \o s)[i]) <= Rank((output \o s)[k])
    BY <1>3, <1>4, <1>5, <2>2, <2>4, OrderJoin
  <2> QED BY <2>1, <2>5
<1>8. CASE Exits(p)
  <2>1. output' = output \o buffer[p]
    BY <1>8 DEF Exits
  <2>2. \A i, k \in DOMAIN (output \o buffer[p]) :
           i < k /\ Rank((output \o buffer[p])[i]) > 0 /\ Rank((output
           \o buffer[p])[k]) > 0 =>
             Rank((output \o buffer[p])[i]) <= Rank((output \o buffer[p])[k])
    BY <1>3, <1>4, <1>5, <1>6, OrderJoin
  <2> QED BY <2>1, <2>2
<1>9. CASE Writes(p)
  <2>1. program = "fork_01"
    BY <1>1, <1>9, CallFacts DEF Writes, CallOK, PlainOK
  <2> QED BY <2>1 DEF Ordered
<1>10. CASE output' = output
  BY <1>3, <1>10
<1> QED BY <1>2, <1>7, <1>8, <1>9, <1>10 DEF Shows, Puts, Copies, Silent

OrderKept == GrandchildFirst /\ EarlierOver /\ OwnTurn /\ OutputInOrder

LEMMA OrderStays == Spec => []OrderKept
<1>1. Init => OrderKept
  <2> SUFFICES ASSUME Init PROVE OrderKept
    OBVIOUS
  <2>1. output = <<>> /\ \A p \in Procs : buffer[p] = <<>>
    BY DEF Init
  <2>2. state["grandchild"] # "running"
    BY DEF Init, Procs
  <2> QED BY <2>1, <2>2, NoLines, ScriptEmpty
          DEF OrderKept, GrandchildFirst, EarlierOver, OwnTurn, OutputInOrder
<1>2. Kept /\ PipesKept /\ OrderKept /\ [Next]_vars => OrderKept'
  <2> SUFFICES ASSUME Kept, PipesKept, OrderKept, [Next]_vars PROVE OrderKept'
    OBVIOUS
  <2>1. ASSUME NEW p \in Procs, Step(p)
        PROVE  OrderKept'
    BY <2>1, GrandchildFirstStep, EarlierOverStep, OwnTurnStep, OutputStep
    DEF Kept, PipesKept, OrderKept
  <2>2. CASE UNCHANGED vars
    <3>1. UNCHANGED <<program, state, todo, buffer, output>>
      BY <2>2 DEF vars
    <3>2. \A l : Rank(l)' = Rank(l)
      BY <3>1 DEF Rank
    <3>3. \A q : Turn(q)' = Turn(q)
      BY <3>1 DEF Turn
    <3>4. \A q : Over(q)' <=> Over(q)
      BY <3>1 DEF Over, Born, Ended
    <3>5. AllLines' = AllLines
      BY <3>1 DEF AllLines
    <3>6. GrandchildFirst' /\ OwnTurn'
      BY <3>1 DEF OrderKept, GrandchildFirst, OwnTurn, Ended
    <3>7. EarlierOver'
      BY <3>1, <3>2, <3>3, <3>4, <3>5 DEF OrderKept, EarlierOver
    <3>8. OutputInOrder'
      BY <3>1, OutputSame DEF OrderKept
    <3> QED BY <3>6, <3>7, <3>8 DEF OrderKept
  <2> QED BY <2>1, <2>2 DEF Next
<1> QED BY <1>1, <1>2, KeptStays, PipesStay, PTL DEF Spec

(* The invariant of the order of the lines in partA.c, partB.c and         *)
(* fork_test.c, buffered or not: nothing of an earlier turn comes after a  *)
(* line of a later one, because whoever has an earlier turn has ended or   *)
(* will never be when the line is printed.                                 *)
THEOREM OrderCorrect == Spec => []OutputInOrder
<1>1. OrderKept => OutputInOrder
  BY DEF OrderKept
<1> QED BY <1>1, OrderStays, PTL

=============================================================================
