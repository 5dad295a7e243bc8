--------------------------- MODULE Session_proofs ---------------------------
(***************************************************************************)
(* Theorems about Session, for every depth of the FIFOs, whatever flash and *)
(* PSRAM are and at any speed of the user: main does what Boot says, the    *)
(* UART drops nothing of what it prints, and its lines start at the left.   *)
(***************************************************************************)
EXTENDS Session, SequenceTheorems, WellFoundedInduction, TLAPS

-----------------------------------------------------------------------------
(* The invariant                                                           *)

Char == {"a", "nl", "cr"}
Call == [f : {"puts", "printf", "wait_for_input"}, text : Seq(Char)]

\* A call at which main waits for a key.
Waits(c) == c.f = "wait_for_input"

\* Calls that main may make at a place of its program: it waits where Boot takes a
\* key, and does nothing else before it looks at that.
Sayable(calls, place) ==
  /\ calls \in Seq(Call)
  /\ \A n \in 1 .. Len(calls) :
       Waits(calls[n]) => n = Len(calls) /\ place \in {"prompt", "exit"}

\* The UART and the calls: nothing is left to be sent between two calls and while
\* a key is waited for, and room that a poll has seen is there.
Sending ==
  /\ phase \in {"idle", "print", "getc", "newline"}
  /\ todo \in Seq(Char) /\ tx \in Seq(Char)
  /\ phase \in {"idle", "getc"} => todo = <<>>
  /\ ready => todo # <<>> /\ Len(tx) < TxDepth
  /\ NothingIsDropped

\* While main waits, Boot waits for a key, and there is one answer at a time, at
\* which main looks before it says more.
Waiting ==
  /\ rx \in Seq(Keys)
  /\ call \in Call
  /\ Sayable(script, pc)
  /\ answer # NoAnswer => script = <<>> /\ phase \in {"newline", "idle"}
  /\ phase = "getc" => Waits(call)
  /\ phase \in {"print", "getc"} /\ Waits(call) =>
       pc \in {"prompt", "exit"} /\ script = <<>>

IInv == Sending /\ Waiting

-----------------------------------------------------------------------------
(* What printf sends                                                       *)

\* Numbers have a least one.
LEMMA Smallest ==
  ASSUME NEW T, T \subseteq Nat, T # {}
  PROVE  \E n \in T : \A m \in T : n <= m
<1>1. PICK n \in T : \A m \in T : <<m, n>> \notin OpToRel(<, Nat)
  BY NatLessThanWellFounded, WFMin
<1>2. ASSUME NEW m \in T PROVE n <= m
  <2>1. n \in Nat /\ m \in Nat
    OBVIOUS
  <2>2. ~(m < n)
    BY <1>1, <2>1 DEF OpToRel
  <2> QED
    BY <2>1, <2>2
<1> QED
  BY <1>2

\* f joins the first n parts, one after the other.
JoinsParts(f, parts, n) ==
  f = [i \in 1 .. n |-> IF i = 1 THEN parts[i] ELSE f[i - 1] \o parts[i]]

\* Sequences can be joined.
LEMMA PartsAreJoined ==
  ASSUME NEW parts \in Seq(Seq(Char)), NEW n \in 0 .. Len(parts)
  PROVE  \E f \in [1 .. n -> Seq(Char)] : JoinsParts(f, parts, n)
<1> DEFINE Joined(m) == \E f \in [1 .. m -> Seq(Char)] : JoinsParts(f, parts, m)
<1> DEFINE Bad == {m \in 0 .. Len(parts) : ~Joined(m)}
<1> SUFFICES ASSUME Bad # {} PROVE FALSE
  OBVIOUS
<1>0. \A i \in 1 .. Len(parts) : parts[i] \in Seq(Char)
  OBVIOUS
<1>1. PICK m \in Bad : \A k \in Bad : m <= k
  <2>1. Bad \subseteq Nat
    OBVIOUS
  <2> HIDE DEF Bad
  <2> QED
    BY <2>1, Smallest
<1>2. m # 0
  <2> SUFFICES Joined(0)
    BY <1>1
  <2> DEFINE f == [i \in 1 .. 0 |-> IF i = 1 THEN parts[i] ELSE <<>>]
  <2>1. f \in [1 .. 0 -> Seq(Char)] /\ JoinsParts(f, parts, 0)
    BY DEF JoinsParts
  <2> QED
    BY <2>1
<1>3. Joined(m - 1)
  <2>1. m - 1 \in 0 .. Len(parts) /\ ~(m <= m - 1)
    BY <1>1, <1>2
  <2>2. m - 1 \notin Bad
    BY <1>1, <2>1
  <2> HIDE DEF Joined
  <2> QED
    BY <2>1, <2>2
<1>4. PICK f \in [1 .. m - 1 -> Seq(Char)] : JoinsParts(f, parts, m - 1)
  BY <1>3
<1>5. m \in 1 .. Len(parts)
  BY <1>1, <1>2
<1> DEFINE last == IF m = 1 THEN parts[m] ELSE f[m - 1] \o parts[m]
           g == [i \in 1 .. m |-> IF i = m THEN last ELSE f[i]]
<1>6. last \in Seq(Char)
  BY <1>0, <1>4, <1>5, ConcatProperties
<1>7. \A i \in 1 .. m - 1 : f[i] = IF i = 1 THEN parts[i] ELSE f[i - 1] \o parts[i]
  BY <1>4 DEF JoinsParts
<1>8. ASSUME NEW i \in 1 .. m
      PROVE  g[i] = IF i = 1 THEN parts[i] ELSE g[i - 1] \o parts[i]
  <2>1. CASE i = m
    BY <1>5, <2>1
  <2>2. CASE i # m
    <3>1. i \in 1 .. m - 1 /\ g[i] = f[i]
      BY <1>5, <2>2
    <3>2. i # 1 => i - 1 \in 1 .. m /\ i - 1 # m
      BY <1>5, <3>1
    <3>3. i # 1 => g[i - 1] = f[i - 1]
      BY <3>2
    <3> QED
      BY <1>7, <3>1, <3>3
  <2> QED
    BY <2>1, <2>2
<1>9. g \in [1 .. m -> Seq(Char)]
  BY <1>4, <1>5, <1>6
<1>10. JoinsParts(g, parts, m)
  <2> HIDE DEF g
  <2> QED
    BY <1>8, <1>9 DEF JoinsParts
<1> QED
  BY <1>1, <1>9, <1>10

\* What is joined of sequences is a sequence.
LEMMA JoinedIsASequence ==
  ASSUME NEW parts \in Seq(Seq(Char)), NEW f, JoinsParts(f, parts, Len(parts)),
         NEW n \in 1 .. Len(parts)
  PROVE  f[n] \in Seq(Char)
<1> DEFINE Bad == {m \in 1 .. Len(parts) : f[m] \notin Seq(Char)}
<1> SUFFICES ASSUME Bad # {} PROVE FALSE
  OBVIOUS
<1>1. /\ \A m \in 1 .. Len(parts) : parts[m] \in Seq(Char)
      /\ \A m \in 1 .. Len(parts) :
           f[m] = IF m = 1 THEN parts[m] ELSE f[m - 1] \o parts[m]
  <2>1. \A m \in 1 .. Len(parts) : parts[m] \in Seq(Char)
    OBVIOUS
  <2>2. \A m \in 1 .. Len(parts) :
          f[m] = IF m = 1 THEN parts[m] ELSE f[m - 1] \o parts[m]
    BY Zenon DEF JoinsParts
  <2> QED
    BY <2>1, <2>2
<1>2. PICK m \in Bad : \A k \in Bad : m <= k
  <2>1. Bad \subseteq Nat
    OBVIOUS
  <2> HIDE DEF Bad
  <2> QED
    BY <2>1, Smallest
<1>3. m \in 1 .. Len(parts) /\ f[m] \notin Seq(Char) /\ m - 1 \notin Bad
  BY <1>2
<1>4. m # 1
  BY <1>1, <1>3
<1>5. f[m - 1] \in Seq(Char) /\ parts[m] \in Seq(Char)
  BY <1>1, <1>3, <1>4
<1>6. f[m - 1] \o parts[m] \in Seq(Char)
  BY <1>5, ConcatProperties
<1> QED
  BY <1>1, <1>3, <1>4, <1>6

\* What printf sends of a text is a sequence of characters, and so is what puts
\* sends.
LEMMA SentIsText ==
  ASSUME NEW text \in Seq(Char)
  PROVE  Printf(text) \in Seq(Char) /\ Puts(text) \in Seq(Char)
<1> DEFINE parts == [n \in DOMAIN text |->
                       IF text[n] = "nl" THEN <<"nl", "cr">> ELSE <<text[n]>>]
<1>1. /\ parts \in Seq(Seq(Char)) /\ Len(parts) = Len(text)
  <2>1. \A n \in 1 .. Len(text) : text[n] \in Char
    OBVIOUS
  <2>2. ASSUME NEW c \in Char PROVE <<c>> \in Seq(Char)
    OBVIOUS
  <2>3. <<"nl", "cr">> \in Seq(Char)
    BY DEF Char
  <2>4. \A n \in 1 .. Len(text) : parts[n] \in Seq(Char)
    BY <2>1, <2>2, <2>3
  <2>5. parts = [n \in 1 .. Len(text) |-> parts[n]]
    OBVIOUS
  <2> HIDE DEF parts
  <2>6. Len(text) \in Nat
    OBVIOUS
  <2> QED
    BY <2>4, <2>5, <2>6, IsASeq
<1>2. Printf(text) = FlattenSeq(parts)
  BY DEF Printf
<1> HIDE DEF parts
<1>3. ASSUME Len(parts) = 0 PROVE Printf(text) \in Seq(Char)
  BY <1>1, <1>2, <1>3 DEF FlattenSeq
<1>4. ASSUME Len(parts) # 0 PROVE Printf(text) \in Seq(Char)
  <2> DEFINE f == CHOOSE g : JoinsParts(g, parts, Len(parts))
  <2>1. \E g : JoinsParts(g, parts, Len(parts))
    BY <1>1, PartsAreJoined
  <2>2. JoinsParts(f, parts, Len(parts))
    BY <2>1
  <2>3. Len(parts) \in 1 .. Len(parts)
    BY <1>1, <1>4
  <2>4. FlattenSeq(parts) = f[Len(parts)]
    BY <1>4 DEF FlattenSeq, JoinsParts
  <2> HIDE DEF f
  <2> QED
    BY <1>1, <1>2, <2>2, <2>3, <2>4, JoinedIsASequence
<1>5. Puts(text) \in Seq(Char)
  <2>1. <<"nl", "cr">> \in Seq(Char)
    BY DEF Char
  <2> QED
    BY <2>1, ConcatProperties DEF Puts
<1> QED
  BY <1>3, <1>4, <1>5

-----------------------------------------------------------------------------
(* What main says                                                          *)

\* The texts of main's messages are characters.
LEMMA TextsAreText ==
  /\ <<>> \in Seq(Char) /\ <<"a">> \in Seq(Char) /\ <<"nl">> \in Seq(Char)
  /\ <<"a", "cr">> \in Seq(Char) /\ <<"nl", "a">> \in Seq(Char) /\ <<"cr">> \in Seq(Char)
  /\ <<"nl", "nl", "nl">> \in Seq(Char) /\ Line \in Seq(Char)
BY DEF Char, Line

\* Calls with such a text are calls, and only wait_for_input waits.
LEMMA CallsAreCalls ==
  /\ \A text \in Seq(Char) : /\ Put(text) \in Call /\ ~Waits(Put(text))
                             /\ Fmt(text) \in Call /\ ~Waits(Fmt(text))
  /\ Wait \in Call /\ Hexdump \in Call /\ ~Waits(Hexdump)
<1>1. \A text \in Seq(Char) : /\ Put(text) \in Call /\ ~Waits(Put(text))
                             /\ Fmt(text) \in Call /\ ~Waits(Fmt(text))
  BY DEF Put, Fmt, Call, Waits
<1>2. Line \o Line \o Line \in Seq(Char)
  BY TextsAreText, ConcatProperties
<1>3. Wait \in Call
  BY TextsAreText DEF Wait, Call
<1> QED
  BY <1>1, <1>2, <1>3 DEF Hexdump

\* One call, two calls, and calls before others.
LEMMA OneIsSayable ==
  ASSUME NEW c \in Call, NEW place, Waits(c) => place \in {"prompt", "exit"}
  PROVE  Sayable(<<c>>, place)
BY DEF Sayable

\* Two calls, of which the first does not wait.
LEMMA TwoAreSayable ==
  ASSUME NEW c \in Call, NEW d \in Call, NEW place, ~Waits(c),
         Waits(d) => place \in {"prompt", "exit"}
  PROVE  Sayable(<<c, d>>, place)
BY DEF Sayable

\* Calls that do not wait, before others that are sayable.
LEMMA MoreAreSayable ==
  ASSUME NEW s \in Seq(Call), NEW t, NEW place, Sayable(t, place),
         \A n \in 1 .. Len(s) : ~Waits(s[n])
  PROVE  Sayable(s \o t, place)
<1>1. t \in Seq(Call) /\ Len(t) \in Nat /\ Len(s) \in Nat
  BY DEF Sayable
<1>2. /\ s \o t \in Seq(Call) /\ Len(s \o t) = Len(s) + Len(t)
      /\ \A n \in 1 .. Len(s) + Len(t) :
           (s \o t)[n] = IF n <= Len(s) THEN s[n] ELSE t[n - Len(s)]
  BY <1>1, ConcatProperties
<1> DEFINE st == s \o t
<1> HIDE DEF st
<1>3. ASSUME NEW n \in 1 .. Len(st), Waits(st[n])
      PROVE  n = Len(st) /\ place \in {"prompt", "exit"}
  <2>1. n \in 1 .. Len(s) + Len(t) /\ ~(n <= Len(s))
    BY <1>2, <1>3 DEF st
  <2>2. st[n] = t[n - Len(s)] /\ n - Len(s) \in 1 .. Len(t)
    BY <1>1, <1>2, <2>1 DEF st
  <2>3. n - Len(s) = Len(t) /\ place \in {"prompt", "exit"}
    BY <1>3, <2>2 DEF Sayable
  <2> QED
    BY <1>1, <1>2, <2>1, <2>3 DEF st
<1> QED
  BY <1>2, <1>3 DEF st, Sayable

\* Main may say nothing.
LEMMA NothingIsSayable == ASSUME NEW place PROVE Sayable(<<>>, place)
BY DEF Sayable

\* What main has to say when it begins.
LEMMA BannerIsSayable == ASSUME NEW place PROVE Sayable(Banner, place)
<1>1. <<"nl", "nl", "nl">> \o Line \in Seq(Char)
  BY TextsAreText, ConcatProperties
<1> QED
  BY <1>1, CallsAreCalls, OneIsSayable DEF Banner

\* What main says behind each of Boot's steps is sayable where the step leads.
LEMMA SetupIsSayable ==
  ASSUME Main!SetupPsram PROVE Sayable(SetupMessages, pc')
<1>1. psramSize' = 0 => pc' = "exit"
  BY DEF Main!SetupPsram, Main!AfterSetup
<1> QED
  BY <1>1, TextsAreText, CallsAreCalls, TwoAreSayable DEF SetupMessages

\* The test of executability ends at a prompt only if it failed.
LEMMA TestIsSayable ==
  ASSUME Main!TestExecutability PROVE Sayable(TestMessages, pc')
<1> DEFINE first == <<Fmt(Line), Fmt(Line)>>
           then == IF pc' = "exit" THEN <<Fmt(Line), Wait>>
                   ELSE <<Fmt(<<"nl">> \o Line), Hexdump>>
<1>1. <<"nl">> \o Line \in Seq(Char)
  BY TextsAreText, ConcatProperties
<1>2. Sayable(then, pc')
  BY <1>1, TextsAreText, CallsAreCalls, TwoAreSayable
<1>3. first \in Seq(Call) /\ \A n \in 1 .. Len(first) : ~Waits(first[n])
  BY TextsAreText, CallsAreCalls
<1>4. TestMessages = first \o then
  BY DEF TestMessages
<1> HIDE DEF first, then
<1> QED
  BY <1>2, <1>3, <1>4, MoreAreSayable

\* The sizes: a message if there is no tree or no kernel.
LEMMA SizesAreSayable == Sayable(SizeMessages, pc')
BY TextsAreText, CallsAreCalls, TwoAreSayable, NothingIsSayable DEF SizeMessages

\* The check of the size waits only if the image is too large.
LEMMA CheckIsSayable == Sayable(CheckMessages, pc')
<1>1. <<"nl", "a">> \in Seq(Char)
  BY TextsAreText
<1> QED
  BY <1>1, TextsAreText, CallsAreCalls, OneIsSayable, TwoAreSayable DEF CheckMessages

\* The end of the copy: two messages more, and a prompt only without a kernel.
LEMMA CopiedIsSayable ==
  ASSUME Main!Copied PROVE Sayable(CopiedMessages, pc')
<1> DEFINE first == <<Fmt(<<"cr">> \o Line), Hexdump>>
           then == IF pc' = "jump" THEN <<Fmt(<<"nl">> \o Line), Fmt(Line)>> ELSE <<Wait>>
<1>1. <<"nl">> \o Line \in Seq(Char) /\ <<"cr">> \o Line \in Seq(Char)
  BY TextsAreText, ConcatProperties
<1>2. pc' = "jump" \/ pc' = "prompt"
  BY DEF Main!Copied
<1>3. Sayable(then, pc')
  BY <1>1, <1>2, TextsAreText, CallsAreCalls, OneIsSayable, TwoAreSayable
<1>4. first \in Seq(Call) /\ \A n \in 1 .. Len(first) : ~Waits(first[n])
  <2>1. Fmt(<<"cr">> \o Line) \in Call /\ ~Waits(Fmt(<<"cr">> \o Line))
    BY <1>1, CallsAreCalls
  <2>2. \A n \in 1 .. Len(first) : first[n] = Fmt(<<"cr">> \o Line) \/ first[n] = Hexdump
    OBVIOUS
  <2> QED
    BY <2>1, <2>2, CallsAreCalls
<1>5. CopiedMessages = first \o then
  BY DEF CopiedMessages
<1> HIDE DEF first, then
<1> QED
  BY <1>3, <1>4, <1>5, MoreAreSayable

\* The payload has returned: only the last call waits.
LEMMA PayloadIsSayable ==
  ASSUME pc' = "exit" PROVE Sayable(PayloadMessages, pc')
<1>1. PayloadMessages \in Seq(Call) /\ Len(PayloadMessages) = 4
  BY TextsAreText, CallsAreCalls DEF PayloadMessages
<1>2. ASSUME NEW n \in 1 .. 4, n # 4 PROVE ~Waits(PayloadMessages[n])
  <2>1. PayloadMessages[n] = Fmt(Line)
    BY <1>2 DEF PayloadMessages
  <2> QED
    BY <2>1, TextsAreText, CallsAreCalls
<1> QED
  BY <1>1, <1>2 DEF Sayable

\* An answer is followed by nothing, by a prompt or by the halt's message.
LEMMA AnswerIsSayable ==
  ASSUME pc' \in {"payload", "exit", "halt"} PROVE Sayable(AnswerMessages, pc')
<1>1. AnswerMessages = IF pc' = "payload" THEN <<>>
                       ELSE IF pc' = "exit" THEN <<Wait>> ELSE <<Put(<<"a">>)>>
  BY DEF AnswerMessages
<1> QED
  BY <1>1, TextsAreText, CallsAreCalls, NothingIsSayable, OneIsSayable

-----------------------------------------------------------------------------
(* The invariant is kept                                                   *)

\* The invariant holds when the board starts.
LEMMA InitIInv == Init => IInv
<1> SUFFICES ASSUME Init PROVE IInv
  OBVIOUS
<1>1. /\ phase = "idle" /\ call = NoCall /\ todo = <<>> /\ ready = FALSE
      /\ answer = NoAnswer /\ tx = <<>> /\ rx = <<>> /\ due = <<>> /\ script = Banner
  BY DEF Init, Silent
<1>2. Sending
  BY <1>1, ConcatEmptySeq DEF Sending, NothingIsDropped
<1>3. call \in Call /\ ~Waits(call)
  BY <1>1, TextsAreText DEF NoCall, Call, Waits
<1>4. Waiting
  BY <1>1, <1>3, BannerIsSayable DEF Waiting
<1> QED
  BY <1>2, <1>4 DEF IInv

\* A step of main that leaves the console alone.
LEMMA ConsoleStays ==
  ASSUME Sending, UNCHANGED console
  PROVE  Sending'
BY DEF Sending, NothingIsDropped, console, core

\* Boot's steps: main speaks next.
LEMMA DoesPreserves ==
  ASSUME IInv, NEW messages, phase = "idle", answer = NoAnswer, UNCHANGED console,
         script' = messages, Sayable(messages, pc')
  PROVE  IInv'
<1>1. Sending'
  BY ConsoleStays DEF IInv
<1>2. Waiting'
  BY DEF IInv, Waiting, console, core
<1> QED
  BY <1>1, <1>2 DEF IInv

\* The steps of Boot keep the invariant.
LEMMA BootStepsPreserve ==
  ASSUME IInv, \/ SetupPsram \/ TestExecutability \/ GetSizes \/ CheckSize \/ CopyBlock
               \/ Fault \/ Copied \/ JumpToKernel \/ PayloadReturns
  PROVE  IInv'
<1> USE DEF Does
<1>1. CASE SetupPsram
  BY <1>1, SetupIsSayable, DoesPreserves DEF SetupPsram
<1>2. CASE TestExecutability
  BY <1>2, TestIsSayable, DoesPreserves DEF TestExecutability
<1>3. CASE GetSizes
  BY <1>3, SizesAreSayable, DoesPreserves DEF GetSizes
<1>4. CASE CheckSize
  BY <1>4, CheckIsSayable, DoesPreserves DEF CheckSize
<1>5. CASE CopyBlock
  BY <1>5, NothingIsSayable, DoesPreserves DEF CopyBlock
<1>6. CASE Copied
  BY <1>6, CopiedIsSayable, DoesPreserves DEF Copied
<1>7. CASE JumpToKernel
  BY <1>7, NothingIsSayable, DoesPreserves DEF JumpToKernel
<1>8. CASE PayloadReturns
  BY <1>8, PayloadIsSayable, DoesPreserves DEF PayloadReturns, Main!PayloadReturns
<1>9. CASE Fault
  BY <1>9, NothingIsSayable, DoesPreserves DEF Fault
<1> QED
  BY <1>1, <1>2, <1>3, <1>4, <1>5, <1>6, <1>7, <1>8, <1>9

\* A text that is begun when nothing is left to be sent.
LEMMA SayKeepsOrder ==
  ASSUME tx \in Seq(Char), NEW text \in Seq(Char), todo = <<>>, NothingIsDropped,
         Say(text), tx' = tx
  PROVE  NothingIsDropped' /\ todo' \in Seq(Char)
<1>1. due = tx
  BY ConcatEmptySeq DEF NothingIsDropped
<1> QED
  BY <1>1 DEF Say, NothingIsDropped

\* The next call keeps the invariant.
LEMMA NextCallPreserves == ASSUME IInv, NextCall PROVE IInv'
<1> DEFINE c == Head(script)
<1>1. /\ script # <<>> /\ script \in Seq(Call) /\ Len(script) \in Nat /\ Len(script) # 0
      /\ phase = "idle" /\ answer = NoAnswer /\ todo = <<>> /\ ~ready
  BY EmptySeq DEF NextCall, Begin, IInv, Sending, Waiting, Sayable
<1>2. c \in Call /\ c = script[1] /\ 1 \in 1 .. Len(script)
  BY <1>1
<1>3. /\ Tail(script) \in Seq(Call) /\ Len(Tail(script)) = Len(script) - 1
      /\ \A n \in 1 .. Len(script) - 1 : Tail(script)[n] = script[n + 1]
  BY <1>1, HeadTailProperties
<1>4. /\ call' = c /\ phase' = "print" /\ script' = Tail(script)
      /\ Say(IF c.f = "puts" THEN Puts(c.text) ELSE Printf(c.text))
      /\ UNCHANGED <<ready, answer, tx, rx, pc>>
  BY DEF NextCall, Begin, main
<1> HIDE DEF c
<1>5. Puts(c.text) \in Seq(Char) /\ Printf(c.text) \in Seq(Char)
  BY <1>2, SentIsText DEF Call
<1>6. NothingIsDropped' /\ todo' \in Seq(Char)
  BY <1>1, <1>4, <1>5, SayKeepsOrder DEF IInv, Sending
<1>7. Sending'
  BY <1>1, <1>4, <1>6 DEF IInv, Sending
<1>8. Waits(c) => Len(script) = 1 /\ pc \in {"prompt", "exit"}
  BY <1>1, <1>2 DEF IInv, Waiting, Sayable
<1>9. Waits(c) => script' = <<>>
  BY <1>3, <1>4, <1>8, EmptySeq
<1>10. Sayable(script', pc')
  <2>1. ASSUME NEW n \in 1 .. Len(script) - 1, Waits(Tail(script)[n])
        PROVE  n = Len(script) - 1 /\ pc \in {"prompt", "exit"}
    <3>1. n + 1 \in 1 .. Len(script) /\ Waits(script[n + 1])
      BY <1>1, <1>3, <2>1
    <3> QED
      BY <1>1, <3>1 DEF IInv, Waiting, Sayable
  <2> QED
    BY <1>1, <1>3, <1>4, <2>1 DEF Sayable
<1>11. Waiting'
  BY <1>1, <1>2, <1>4, <1>8, <1>9, <1>10 DEF IInv, Waiting
<1> QED
  BY <1>7, <1>11 DEF IInv

\* What is moved from the text to the FIFO stays between the same neighbours.
LEMMA MovedOn ==
  ASSUME NEW s \in Seq(Char), NEW t \in Seq(Char), t # <<>>
  PROVE  /\ Append(s, Head(t)) \o Tail(t) = s \o t
         /\ Append(s, Head(t)) \in Seq(Char) /\ Tail(t) \in Seq(Char)
<1> DEFINE h == <<Head(t)>>
<1>1. Head(t) \in Char /\ Tail(t) \in Seq(Char) /\ h \in Seq(Char) /\ h \o Tail(t) = t
  BY HeadTailProperties
<1>2. Append(s, Head(t)) = s \o h /\ Append(s, Head(t)) \in Seq(Char)
  BY <1>1, AppendProperties, AppendIsConcat
<1>3. (s \o h) \o Tail(t) = s \o (h \o Tail(t))
  BY <1>1, ConcatAssociative
<1> QED
  BY <1>1, <1>2, <1>3

\* What leaves the FIFO is the first that is due.
LEMMA ShiftedOut ==
  ASSUME NEW s \in Seq(Char), NEW t \in Seq(Char), s # <<>>
  PROVE  Tail(s \o t) = Tail(s) \o t /\ Tail(s) \in Seq(Char)
BY HeadTailProperties, ConcatProperties

\* The UART, the core and the user.
LEMMA CorePreserves == ASSUME IInv, Core, UNCHANGED <<main, script>> PROVE IInv'
<1>0. UNCHANGED <<pc, script>>
  BY DEF main
<1>1. CASE Poll
  <2>1. Sending'
    BY <1>1 DEF Poll, TxReady, IInv, Sending, NothingIsDropped
  <2> QED
    BY <1>0, <1>1, <2>1 DEF Poll, IInv, Waiting, Sayable
<1>2. CASE Send
  <2>1. /\ todo \in Seq(Char) /\ tx \in Seq(Char) /\ todo # <<>> /\ Len(tx) < TxDepth
        /\ due = tx \o todo /\ phase \in {"print", "newline"}
    BY <1>2 DEF Send, IInv, Sending, NothingIsDropped
  <2>2. /\ tx' = Append(tx, Head(todo)) /\ todo' = Tail(todo) /\ ready' = FALSE
        /\ UNCHANGED <<phase, call, answer, rx, due>>
    BY <1>2, <2>1 DEF Send
  <2>3. tx' \o todo' = due' /\ tx' \in Seq(Char) /\ todo' \in Seq(Char)
    BY <2>1, <2>2, MovedOn
  <2>4. Sending'
    BY <2>1, <2>2, <2>3 DEF Sending, NothingIsDropped
  <2> QED
    BY <1>0, <2>2, <2>4 DEF IInv, Waiting, Sayable
<1>3. CASE Printed
  <2>1. Sending'
    BY <1>3 DEF Printed, IInv, Sending, NothingIsDropped
  <2>2. Waiting'
    BY <1>0, <1>3 DEF Printed, IInv, Waiting, Sayable, Waits
  <2> QED
    BY <2>1, <2>2 DEF IInv
<1>4. CASE NoKey
  <2>1. /\ phase = "getc" /\ phase' = "print" /\ Say(Printf(call.text))
        /\ UNCHANGED <<call, ready, answer, tx, rx>>
    BY <1>4 DEF NoKey
  <2>2. todo = <<>> /\ ~ready /\ tx \in Seq(Char) /\ call.text \in Seq(Char)
        /\ NothingIsDropped
    BY <2>1 DEF IInv, Sending, Waiting, Call
  <2>3. NothingIsDropped' /\ todo' \in Seq(Char)
    BY <2>1, <2>2, SentIsText, SayKeepsOrder
  <2>4. Sending'
    BY <2>1, <2>2, <2>3 DEF Sending
  <2>5. Waiting'
    BY <1>0, <2>1 DEF IInv, Waiting, Sayable
  <2> QED
    BY <2>4, <2>5 DEF IInv
<1>5. CASE GetKey
  <2>1. /\ phase = "getc" /\ rx # <<>> /\ answer' = Head(rx) /\ rx' = Tail(rx)
        /\ phase' = "newline" /\ Say(Puts(<<>>)) /\ UNCHANGED <<call, ready, tx>>
    BY <1>5 DEF GetKey, Taken
  <2>2. todo = <<>> /\ ~ready /\ tx \in Seq(Char) /\ NothingIsDropped /\ script = <<>>
    BY <2>1 DEF IInv, Sending, Waiting
  <2>3. NothingIsDropped' /\ todo' \in Seq(Char)
    BY <2>1, <2>2, TextsAreText, SentIsText, SayKeepsOrder
  <2>4. Sending'
    BY <2>1, <2>2, <2>3 DEF Sending
  <2>5. rx' \in Seq(Keys)
    BY <2>1, HeadTailProperties DEF IInv, Waiting
  <2>6. Waiting'
    BY <1>0, <2>1, <2>2, <2>5 DEF IInv, Waiting, Sayable
  <2> QED
    BY <2>4, <2>6 DEF IInv
<1> QED
  BY <1>1, <1>2, <1>3, <1>4, <1>5 DEF Core

\* The look at an answer keeps the invariant.
LEMMA LookAtAnswerPreserves == ASSUME IInv, LookAtAnswer PROVE IInv'
<1>1. /\ phase = "idle" /\ answer' = NoAnswer /\ script' = AnswerMessages
      /\ pc' = After(answer) /\ UNCHANGED <<phase, call, todo, ready, tx, rx, due>>
  BY DEF LookAtAnswer
<1>2. pc' \in {"payload", "exit", "halt"}
  BY <1>1 DEF After, Main!Answered
<1>3. Sayable(script', pc')
  BY <1>1, <1>2, AnswerIsSayable
<1>4. Sending'
  BY <1>1 DEF IInv, Sending, NothingIsDropped
<1>5. Waiting'
  BY <1>1, <1>3 DEF IInv, Waiting
<1> QED
  BY <1>4, <1>5 DEF IInv

\* A character that leaves and a key that comes keep the invariant.
LEMMA EnvironmentPreserves == ASSUME IInv, Transmits \/ Types PROVE IInv'
<1>1. CASE Transmits
  <2>1. /\ tx # <<>> /\ tx' = Tail(tx) /\ due' = Tail(due)
        /\ UNCHANGED <<phase, call, todo, ready, answer, rx, pc, script>>
    BY <1>1 DEF Transmits, Shift, core, main
  <2>2. tx \in Seq(Char) /\ todo \in Seq(Char) /\ due = tx \o todo
    BY DEF IInv, Sending, NothingIsDropped
  <2>3. due' = tx' \o todo' /\ tx' \in Seq(Char)
    BY <2>1, <2>2, ShiftedOut
  <2>4. ready => Len(tx') < TxDepth
    <3>1. Len(tx') = Len(tx) - 1 /\ Len(tx) \in Nat
      BY <2>1, <2>2, HeadTailProperties
    <3> QED
      BY <3>1, ConsoleAssumption DEF IInv, Sending
  <2>5. Sending'
    BY <2>1, <2>2, <2>3, <2>4 DEF IInv, Sending, NothingIsDropped
  <2> QED
    BY <2>1, <2>5 DEF IInv, Waiting, Sayable
<1>2. CASE Types
  <2>1. PICK k \in Keys : Press(k)
    BY <1>2 DEF Types
  <2>2. /\ rx' = Append(rx, k)
        /\ UNCHANGED <<phase, call, todo, ready, answer, tx, due, pc, script>>
    BY <1>2, <2>1 DEF Types, Press, core, main
  <2>3. rx' \in Seq(Keys)
    BY <2>2, AppendProperties DEF IInv, Waiting
  <2>4. Sending'
    BY <2>2 DEF IInv, Sending, NothingIsDropped
  <2> QED
    BY <2>2, <2>3, <2>4 DEF IInv, Waiting, Sayable
<1> QED
  BY <1>1, <1>2

\* A restart keeps the invariant.
LEMMA RestartPreserves == ASSUME IInv, Restart PROVE IInv'
<1>1. /\ phase' = "idle" /\ call' = NoCall /\ todo' = <<>> /\ ready' = FALSE
      /\ answer' = NoAnswer /\ tx' = <<>> /\ rx' = <<>> /\ due' = <<>> /\ script' = Banner
  BY DEF Restart, Reset
<1>2. Sending'
  BY <1>1, ConcatEmptySeq DEF Sending, NothingIsDropped
<1>3. call' \in Call
  BY <1>1, TextsAreText DEF NoCall, Call
<1>4. Waiting'
  BY <1>1, <1>3, BannerIsSayable DEF Waiting
<1> QED
  BY <1>2, <1>4 DEF IInv

\* Every step keeps the invariant.
LEMMA Preserved == ASSUME IInv, [Next]_vars PROVE IInv'
<1>1. CASE Runs
  BY <1>1, BootStepsPreserve, NextCallPreserves, LookAtAnswerPreserves, CorePreserves
  DEF Runs
<1>2. CASE UNCHANGED vars
  <2>1. Sending'
    BY <1>2, ConsoleStays DEF vars, IInv
  <2> QED
    BY <1>2, <2>1 DEF vars, console, core, main, IInv, Waiting, Sayable
<1> QED
  BY <1>1, <1>2, BootStepsPreserve, EnvironmentPreserves, RestartPreserves DEF Next

\* Every reachable state satisfies the invariant.
THEOREM Inductive == Spec => []IInv
BY InitIInv, Preserved, PTL DEF Spec

-----------------------------------------------------------------------------
(* Theorems                                                                *)

\* However slow the UART is, and wherever a restart comes: what main wanted shown
\* and the terminal has not got is in the FIFO or still to be sent, in order.
THEOREM NothingIsDroppedAlways == Spec => []NothingIsDropped
<1>1. IInv => NothingIsDropped
  BY DEF IInv, Sending
<1> QED
  BY <1>1, Inductive, PTL

\* A key is taken where Boot takes one; a step of main is one of Boot's, and all
\* others are none to Boot.
LEMMA StepSimulates == ASSUME IInv, [Next]_vars PROVE [Boot!Next]_(Boot!vars)
<1> DEFINE place == IF answer = NoAnswer THEN pc ELSE After(answer)
<1>1. ASSUME \/ SetupPsram \/ TestExecutability \/ GetSizes \/ CheckSize \/ CopyBlock
             \/ Fault \/ Copied \/ JumpToKernel \/ PayloadReturns
      PROVE  Boot!Next
  <2>1. answer = NoAnswer /\ answer' = NoAnswer
    BY <1>1
    DEF SetupPsram, TestExecutability, GetSizes, CheckSize, CopyBlock, Fault, Copied,
        JumpToKernel, PayloadReturns, Does, console, core
  <2>2. place = pc /\ place' = pc'
    BY <2>1
  <2>3. rx' = rx
    BY <1>1
    DEF SetupPsram, TestExecutability, GetSizes, CheckSize, CopyBlock, Fault, Copied,
        JumpToKernel, PayloadReturns, Does, console
  <2> USE DEF Does, Main!world, Boot!world, Main!locals, Boot!locals
  <2>4. CASE SetupPsram
    BY <2>1, <2>4 DEF SetupPsram, Main!SetupPsram, Main!AfterSetup, Boot!SetupPsram,
       Boot!AfterSetup, Boot!Next, Boot!Main
  <2>5. CASE TestExecutability
    BY <2>1, <2>5
    DEF TestExecutability, Main!TestExecutability, Boot!TestExecutability, Main!RetInst,
        Boot!RetInst, Main!Unknown, Boot!Unknown, Boot!Next, Boot!Main
  <2>6. CASE GetSizes
    <3>1. Main!GetSizes
      BY <2>6 DEF GetSizes
    <3>2. Main!DeviceTreeSize = Boot!DeviceTreeSize
          /\ Main!KernelSize(Main!DeviceTreeSize) = Boot!KernelSize(Main!DeviceTreeSize)
      BY DEF Main!DeviceTreeSize, Main!KernelSize, Main!FdtSize, Main!Bswap32, Main!Shift,
             Main!LittleEndian32, Main!LittleEndian64, Main!BigEndian32, Main!SizeLimit,
             Boot!DeviceTreeSize, Boot!KernelSize, Boot!FdtSize, Boot!Bswap32, Boot!Shift,
             Boot!LittleEndian32, Boot!LittleEndian64, Boot!BigEndian32, Boot!SizeLimit
    <3> QED
      BY <2>1, <3>1, <3>2 DEF Main!GetSizes, Boot!GetSizes, Boot!Next, Boot!Main
  <2>7. CASE CheckSize
    BY <2>1, <2>7
    DEF CheckSize, Main!CheckSize, Boot!CheckSize, Main!TooLarge, Boot!TooLarge,
        Main!SizeLimit, Boot!SizeLimit, Boot!Next, Boot!Main
  <2>8. CASE CopyBlock
    BY <2>1, <2>8
    DEF CopyBlock, Main!CopyBlock, Boot!CopyBlock, Main!From, Boot!From, Main!Flash,
        Boot!Flash, Main!Written, Boot!Written, Boot!Next, Boot!Main
  <2>9. CASE Copied
    BY <2>1, <2>9 DEF Copied, Main!Copied, Boot!Copied, Boot!Next, Boot!Main
  <2>10. CASE JumpToKernel
    BY <2>1, <2>10
    DEF JumpToKernel, Main!JumpToKernel, Boot!JumpToKernel, Boot!Next, Boot!Main
  <2>11. CASE PayloadReturns
    BY <2>1, <2>11 DEF PayloadReturns, Main!PayloadReturns, Boot!PayloadReturns, Boot!Next
  <2>12. CASE Fault
    BY <2>1, <2>12 DEF Fault, Main!Fault, Boot!Fault, Boot!Next, Boot!Main
  <2> QED
    BY <1>1, <2>4, <2>5, <2>6, <2>7, <2>8, <2>9, <2>10, <2>11, <2>12
<1>2. CASE NextCall
  <2>1. UNCHANGED <<rx, answer, main>>
    BY <1>2 DEF NextCall, Begin
  <2> QED
    BY <2>1 DEF main, After, Boot!vars, Boot!locals, Boot!world
<1>3. CASE LookAtAnswer
  <2>1. /\ answer # NoAnswer /\ pc' = After(answer) /\ answer' = NoAnswer
        /\ UNCHANGED <<rx, payload, fitted, psramSize, deviceTreeSize, kernelSize, copied,
                      psram, restarts>>
    BY <1>3 DEF LookAtAnswer
  <2> QED
    BY <2>1 DEF Boot!vars, Boot!locals, Boot!world
<1>4. CASE GetKey /\ UNCHANGED <<main, script>>
  <2>1. /\ phase = "getc" /\ rx # <<>> /\ answer' = Head(rx) /\ rx' = Tail(rx)
        /\ UNCHANGED main
    BY <1>4 DEF GetKey, Taken
  <2>2. answer = NoAnswer /\ pc \in {"prompt", "exit"} /\ rx \in Seq(Keys)
    BY <2>1 DEF IInv, Waiting
  <2>3. Head(rx) \in Keys /\ Head(rx) # NoAnswer
    BY <2>1, <2>2, HeadTailProperties, KeysAssumption DEF Main!Key, NoAnswer
  <2>4. place = pc /\ place' = After(answer)'
    BY <2>1, <2>2, <2>3
  <2>5. After(answer)' = IF pc = "prompt" THEN Boot!Answered(Head(rx)) ELSE "halt"
    BY <2>1 DEF After, main, Main!Answered, Boot!Answered
  <2>6. Boot!Answer \/ Boot!LeaveMain
    BY <2>1, <2>2, <2>4, <2>5
    DEF main, Boot!Answer, Boot!LeaveMain, Boot!locals, Boot!world
  <2> QED
    BY <2>6 DEF Boot!Next
<1>5. CASE (Poll \/ Send \/ Printed \/ NoKey \/ Shift) /\ UNCHANGED <<main, script>>
  <2>1. UNCHANGED <<rx, answer, main>>
    BY <1>5 DEF Poll, Send, Printed, NoKey, Shift, core
  <2> QED
    BY <2>1 DEF main, After, Boot!vars, Boot!locals, Boot!world
<1>6. CASE Types
  <2>1. PICK k \in Keys : Press(k) /\ UNCHANGED main
    BY <1>6 DEF Types
  <2>2. k \in Boot!Key
    BY KeysAssumption DEF Main!Key, Boot!Key
  <2>3. Boot!Type(k)
    BY <2>1 DEF Press, core, main, After, Boot!Type, Boot!locals, Boot!world
  <2> QED
    BY <2>2, <2>3 DEF Boot!Next
<1>7. CASE Restart
  <2>1. Main!Restart /\ answer' = NoAnswer
    BY <1>7 DEF Restart, Reset
  <2> QED
    BY <2>1 DEF Main!Restart, Boot!Restart, Boot!Next
<1>8. CASE UNCHANGED vars
  BY <1>8 DEF vars, console, core, main, After, Boot!vars, Boot!locals, Boot!world
<1> QED
  BY <1>1, <1>2, <1>3, <1>4, <1>5, <1>6, <1>7, <1>8 DEF Next, Runs, Transmits, Core

\* main with its console does what Boot says, with the FIFO's keys for Boot's and at
\* the place where the last answer takes it.
THEOREM SessionImplementsBoot == Spec => ImplementsBoot
<1>1. Init => Boot!Init
  BY DEF Init, Silent, Main!Init, Boot!Init, Main!Unknown, Boot!Unknown
<1>2. IInv /\ [Next]_vars => [Boot!Next]_(Boot!vars)
  BY StepSimulates
<1> QED
  BY <1>1, <1>2, Inductive, PTL DEF Spec, ImplementsBoot, Boot!Spec

-----------------------------------------------------------------------------
(* Lines start at the left                                                 *)

\* Behind the n-th character the cursor is brought back before anything is shown.
Back(s, n) ==
  \E k \in n + 1 .. Len(s) : s[k] = "cr" /\ \A m \in n + 1 .. k : s[m] # "a"

\* Behind each of its line feeds a text brings the cursor back.
Closed(s) == \A n \in 1 .. Len(s) : s[n] = "nl" => Back(s, n)

\* What is due leaves no line below the end of another: line feeds without a carriage
\* return come first, when the cursor is at the left.
Neat ==
  /\ cursor \in {"left", "mid", "below"}
  /\ cursor = "below" => Back(due, 0)
  /\ \A n \in 1 .. Len(due) : due[n] = "nl" =>
       Back(due, n) \/ (cursor = "left" /\ \A m \in 1 .. n : due[m] = "nl")

\* A call's text as it is sent.
Sent(c) == IF c.f = "puts" THEN Puts(c.text) ELSE Printf(c.text)
NeatCall == {c \in Call : Closed(Sent(c))}

\* All calls are such, but for the first of all, which finds the cursor at the left.
LinesInv ==
  /\ restarts \in Nat
  /\ restarts = 0 =>
       /\ Neat
       /\ script \in Seq(NeatCall) \/ (script = Banner /\ due = <<>> /\ cursor = "left")

\* Where the cursor is brought back, it is also when a text is put behind.
LEMMA BackStays ==
  ASSUME NEW s \in Seq(Char), NEW t \in Seq(Char), NEW n \in Nat, Back(s, n)
  PROVE  Back(s \o t, n)
<1>1. PICK k \in n + 1 .. Len(s) : s[k] = "cr" /\ \A m \in n + 1 .. k : s[m] # "a"
  BY DEF Back
<1>2. /\ Len(s \o t) = Len(s) + Len(t) /\ Len(s) \in Nat /\ Len(t) \in Nat
      /\ \A i \in 1 .. Len(s) : (s \o t)[i] = s[i]
  BY ConcatProperties
<1> DEFINE st == s \o t
<1> HIDE DEF st
<1>3. /\ k \in n + 1 .. Len(st) /\ st[k] = s[k]
      /\ \A m \in n + 1 .. k : st[m] = s[m]
  BY <1>1, <1>2 DEF st
<1>4. Back(st, n)
  BY <1>1, <1>3 DEF Back
<1> QED
  BY <1>4 DEF st

\* The same of a text that is put behind another.
LEMMA BackShifts ==
  ASSUME NEW s \in Seq(Char), NEW t \in Seq(Char), NEW n \in Nat, Back(t, n)
  PROVE  Back(s \o t, Len(s) + n)
<1>1. PICK k \in n + 1 .. Len(t) : t[k] = "cr" /\ \A m \in n + 1 .. k : t[m] # "a"
  BY DEF Back
<1>2. /\ Len(s \o t) = Len(s) + Len(t) /\ Len(s) \in Nat /\ Len(t) \in Nat
      /\ \A i \in Len(s) + 1 .. Len(s) + Len(t) : (s \o t)[i] = t[i - Len(s)]
  BY ConcatProperties
<1> DEFINE st == s \o t
<1> HIDE DEF st
<1>3. Len(s) + k \in Len(s) + n + 1 .. Len(st) /\ st[Len(s) + k] = t[k]
  <2>1. Len(s) + k \in Len(s) + 1 .. Len(s) + Len(t) /\ (Len(s) + k) - Len(s) = k
    BY <1>1, <1>2
  <2> QED
    BY <1>1, <1>2, <2>1 DEF st
<1>4. ASSUME NEW m \in Len(s) + n + 1 .. Len(s) + k
      PROVE  st[m] # "a"
  <2>1. m \in Len(s) + 1 .. Len(s) + Len(t) /\ m - Len(s) \in n + 1 .. k
    BY <1>1, <1>2
  <2> QED
    BY <1>1, <1>2, <2>1 DEF st
<1>5. Back(st, Len(s) + n)
  BY <1>1, <1>3, <1>4 DEF Back
<1> QED
  BY <1>5 DEF st

\* The same when the first character goes.
LEMMA BackOfTail ==
  ASSUME NEW s \in Seq(Char), s # <<>>, NEW n \in 1 .. Len(s), Back(s, n)
  PROVE  Back(Tail(s), n - 1)
<1>1. PICK k \in n + 1 .. Len(s) : s[k] = "cr" /\ \A m \in n + 1 .. k : s[m] # "a"
  BY DEF Back
<1>2. /\ Len(s) \in Nat /\ Len(Tail(s)) = Len(s) - 1
      /\ \A i \in 1 .. Len(s) - 1 : Tail(s)[i] = s[i + 1]
  BY HeadTailProperties
<1> DEFINE t == Tail(s)
<1> HIDE DEF t
<1>3. k - 1 \in (n - 1) + 1 .. Len(t) /\ t[k - 1] = "cr"
  BY <1>1, <1>2 DEF t
<1>4. ASSUME NEW m \in (n - 1) + 1 .. k - 1
      PROVE  t[m] # "a"
  <2>1. m \in 1 .. Len(s) - 1 /\ m + 1 \in n + 1 .. k
    BY <1>1, <1>2
  <2> QED
    BY <1>1, <1>2, <2>1 DEF t
<1>5. Back(t, n - 1)
  BY <1>3, <1>4 DEF Back
<1> QED
  BY <1>5 DEF t

\* Two closed texts are a closed text.
LEMMA ClosedJoins ==
  ASSUME NEW s \in Seq(Char), NEW t \in Seq(Char), Closed(s), Closed(t)
  PROVE  Closed(s \o t)
<1>1. /\ Len(s \o t) = Len(s) + Len(t) /\ Len(s) \in Nat /\ Len(t) \in Nat
      /\ \A i \in 1 .. Len(s) : (s \o t)[i] = s[i]
      /\ \A i \in Len(s) + 1 .. Len(s) + Len(t) : (s \o t)[i] = t[i - Len(s)]
  BY ConcatProperties
<1>2. ASSUME NEW n \in 1 .. Len(s) + Len(t), (s \o t)[n] = "nl"
      PROVE  Back(s \o t, n)
  <2>1. CASE n <= Len(s)
    <3>1. n \in 1 .. Len(s) /\ n \in Nat /\ s[n] = "nl"
      BY <1>1, <1>2, <2>1
    <3>2. Back(s, n)
      BY <3>1 DEF Closed
    <3> QED
      BY <3>1, <3>2, BackStays
  <2>2. CASE n > Len(s)
    <3>1. /\ n \in Len(s) + 1 .. Len(s) + Len(t) /\ n - Len(s) \in 1 .. Len(t)
          /\ n - Len(s) \in Nat /\ Len(s) + (n - Len(s)) = n
      BY <1>1, <2>2
    <3>2. t[n - Len(s)] = "nl"
      BY <1>1, <1>2, <3>1
    <3>3. Back(t, n - Len(s))
      BY <3>1, <3>2 DEF Closed
    <3>4. Back(s \o t, Len(s) + (n - Len(s)))
      BY <3>1, <3>3, BackShifts
    <3> QED
      BY <3>1, <3>4
  <2> QED
    BY <1>1, <2>1, <2>2
<1> QED
  BY <1>1, <1>2 DEF Closed

\* Closed texts that are joined are a closed text.
LEMMA JoinedIsClosed ==
  ASSUME NEW parts \in Seq({q \in Seq(Char) : Closed(q)}),
         NEW f, JoinsParts(f, parts, Len(parts)), NEW n \in 1 .. Len(parts)
  PROVE  f[n] \in Seq(Char) /\ Closed(f[n])
<1> DEFINE Good(q) == q \in Seq(Char) /\ Closed(q)
           Bad == {m \in 1 .. Len(parts) : ~Good(f[m])}
<1> SUFFICES ASSUME Bad # {} PROVE FALSE
  OBVIOUS
<1>1. /\ \A m \in 1 .. Len(parts) : Good(parts[m])
      /\ \A m \in 1 .. Len(parts) :
           f[m] = IF m = 1 THEN parts[m] ELSE f[m - 1] \o parts[m]
  <2>1. \A m \in 1 .. Len(parts) : Good(parts[m])
    OBVIOUS
  <2>2. \A m \in 1 .. Len(parts) :
          f[m] = IF m = 1 THEN parts[m] ELSE f[m - 1] \o parts[m]
    BY Zenon DEF JoinsParts
  <2> QED
    BY <2>1, <2>2
<1>2. PICK m \in Bad : \A k \in Bad : m <= k
  <2>1. Bad \subseteq Nat
    OBVIOUS
  <2> HIDE DEF Bad
  <2> QED
    BY <2>1, Smallest
<1>3. m \in 1 .. Len(parts) /\ ~Good(f[m]) /\ m - 1 \notin Bad
  BY <1>2
<1>4. m # 1
  BY <1>1, <1>3
<1>5. Good(f[m - 1]) /\ Good(parts[m])
  BY <1>1, <1>3, <1>4
<1>6. Good(f[m - 1] \o parts[m])
  BY <1>5, ConcatProperties, ClosedJoins
<1> QED
  BY <1>1, <1>3, <1>4, <1>6

\* Behind every line feed of printf's the carriage return is the next character.
LEMMA PrintfIsClosed ==
  ASSUME NEW text \in Seq(Char)
  PROVE  Closed(Printf(text))
<1> DEFINE parts == [n \in DOMAIN text |->
                       IF text[n] = "nl" THEN <<"nl", "cr">> ELSE <<text[n]>>]
           Good == {q \in Seq(Char) : Closed(q)}
<1>1. /\ parts \in Seq(Good) /\ Len(parts) = Len(text)
  <2>1. \A n \in 1 .. Len(text) : text[n] \in Char
    OBVIOUS
  <2>2. ASSUME NEW c \in Char, c # "nl" PROVE <<c>> \in Good
    <3>1. <<c>> \in Seq(Char) /\ Len(<<c>>) = 1 /\ <<c>>[1] = c
      OBVIOUS
    <3> QED
      BY <2>2, <3>1 DEF Closed
  <2>3. <<"nl", "cr">> \in Good
    <3> DEFINE q == <<"nl", "cr">>
    <3>1. q \in Seq(Char) /\ Len(q) = 2 /\ q[1] = "nl" /\ q[2] = "cr"
      BY DEF Char
    <3> HIDE DEF q
    <3>2. Back(q, 1)
      BY <3>1 DEF Back
    <3>3. Closed(q)
      BY <3>1, <3>2 DEF Closed
    <3> QED
      BY <3>1, <3>3 DEF q
  <2> HIDE DEF Good
  <2>4. \A n \in 1 .. Len(text) : parts[n] \in Good
    BY <2>1, <2>2, <2>3
  <2>5. parts = [n \in 1 .. Len(text) |-> parts[n]]
    OBVIOUS
  <2> HIDE DEF parts
  <2>6. Len(text) \in Nat
    OBVIOUS
  <2> QED
    BY <2>4, <2>5, <2>6, IsASeq
<1>2. Printf(text) = FlattenSeq(parts)
  BY DEF Printf
<1>3. parts \in Seq(Seq(Char))
  <2> HIDE DEF parts
  <2>1. Good \subseteq Seq(Char)
    OBVIOUS
  <2> HIDE DEF Good
  <2> QED
    BY <1>1, <2>1
<1> HIDE DEF parts
<1>4. ASSUME Len(parts) = 0 PROVE Closed(Printf(text))
  <2>1. Printf(text) = <<>>
    BY <1>1, <1>2, <1>3, <1>4 DEF FlattenSeq
  <2> QED
    BY <2>1 DEF Closed
<1>5. ASSUME Len(parts) # 0 PROVE Closed(Printf(text))
  <2> DEFINE f == CHOOSE g : JoinsParts(g, parts, Len(parts))
  <2>1. \E g : JoinsParts(g, parts, Len(parts))
    BY <1>1, <1>3, PartsAreJoined
  <2>2. JoinsParts(f, parts, Len(parts))
    BY <2>1
  <2>3. Len(parts) \in 1 .. Len(parts)
    BY <1>1, <1>5
  <2>4. FlattenSeq(parts) = f[Len(parts)]
    BY <1>5 DEF FlattenSeq, JoinsParts
  <2> HIDE DEF f
  <2> QED
    BY <1>1, <1>2, <2>2, <2>3, <2>4, JoinedIsClosed
<1> QED
  BY <1>4, <1>5

\* What puts sends is closed, of the texts that main gives it after the first.
LEMMA PutsAreClosed ==
  Closed(Puts(<<>>)) /\ Closed(Puts(<<"a">>)) /\ Closed(Puts(Line))
<1>1. Closed(Puts(<<>>))
  <2> DEFINE q == Puts(<<>>)
  <2>1. Len(q) = 2 /\ q[1] = "nl" /\ q[2] = "cr"
    BY DEF Puts
  <2> HIDE DEF q
  <2> QED
    <3>1. Back(q, 1)
      BY <2>1 DEF Back
    <3>2. Closed(q)
      BY <2>1, <3>1 DEF Closed
    <3> QED
      BY <3>2 DEF q
<1>2. Closed(Puts(<<"a">>))
  <2> DEFINE q == Puts(<<"a">>)
  <2>1. Len(q) = 3 /\ q[1] = "a" /\ q[2] = "nl" /\ q[3] = "cr"
    BY DEF Puts
  <2> HIDE DEF q
  <2> QED
    <3>1. Back(q, 2)
      BY <2>1 DEF Back
    <3>2. Closed(q)
      BY <2>1, <3>1 DEF Closed
    <3> QED
      BY <3>2 DEF q
<1>3. Closed(Puts(Line))
  <2> DEFINE q == Puts(Line)
  <2>1. Len(q) = 4 /\ q[1] = "a" /\ q[2] = "nl" /\ q[3] = "nl" /\ q[4] = "cr"
    BY DEF Puts, Line
  <2> HIDE DEF q
  <2> QED
    <3>1. Back(q, 2) /\ Back(q, 3)
      BY <2>1 DEF Back
    <3>2. Closed(q)
      BY <2>1, <3>1 DEF Closed
    <3> QED
      BY <3>2 DEF q
<1> QED
  BY <1>1, <1>2, <1>3

\* A closed text put behind what is due leaves no line below another's end.
LEMMA SayKeepsNeat ==
  ASSUME due \in Seq(Char), Neat, NEW text \in Seq(Char), Closed(text), Say(text),
         cursor' = cursor
  PROVE  Neat'
<1>1. /\ due' = due \o text /\ Len(due') = Len(due) + Len(text)
      /\ Len(due) \in Nat /\ Len(text) \in Nat
      /\ \A i \in 1 .. Len(due) : due'[i] = due[i]
      /\ \A i \in Len(due) + 1 .. Len(due) + Len(text) : due'[i] = text[i - Len(due)]
  BY ConcatProperties DEF Say
<1>2. cursor' = "below" => Back(due, 0)'
  <2>1. cursor = "below" => Back(due \o text, 0)
    BY BackStays DEF Neat
  <2> QED
    BY <1>1, <2>1 DEF Back
<1>3. ASSUME NEW n \in 1 .. Len(due) + Len(text), due'[n] = "nl"
      PROVE  \/ Back(due \o text, n)
             \/ cursor = "left" /\ \A m \in 1 .. n : due'[m] = "nl"
  <2>1. CASE n <= Len(due)
    <3>1. n \in 1 .. Len(due) /\ n \in Nat /\ due[n] = "nl"
      BY <1>1, <1>3, <2>1
    <3>2. CASE Back(due, n)
      BY <3>1, <3>2, BackStays
    <3>3. CASE cursor = "left" /\ \A m \in 1 .. n : due[m] = "nl"
      BY <1>1, <3>1, <3>3
    <3> QED
      BY <3>1, <3>2, <3>3 DEF Neat
  <2>2. CASE n > Len(due)
    <3>1. /\ n \in Len(due) + 1 .. Len(due) + Len(text) /\ n - Len(due) \in 1 .. Len(text)
          /\ n - Len(due) \in Nat /\ Len(due) + (n - Len(due)) = n
      BY <1>1, <2>2
    <3>2. text[n - Len(due)] = "nl"
      BY <1>1, <1>3, <3>1
    <3>3. Back(text, n - Len(due))
      BY <3>1, <3>2 DEF Closed
    <3>4. Back(due \o text, Len(due) + (n - Len(due)))
      BY <3>1, <3>3, BackShifts
    <3> QED
      BY <3>1, <3>4
  <2> QED
    BY <1>1, <2>1, <2>2
<1>4. cursor' \in {"left", "mid", "below"}
  BY DEF Neat
<1>5. ASSUME NEW n \in 1 .. Len(due'), due'[n] = "nl"
      PROVE  \/ Back(due', n)
             \/ cursor' = "left" /\ \A m \in 1 .. n : due'[m] = "nl"
  BY <1>1, <1>3, <1>5
<1> QED
  BY <1>2, <1>4, <1>5 DEF Neat, Back

\* The first of all texts begins with line feeds at the left.
LEMMA BannerIsNeat ==
  ASSUME due = <<>>, cursor = "left", cursor' = cursor,
         Say(Puts(<<"nl", "nl", "nl">> \o Line))
  PROVE  Neat'
<1>1. /\ Len(due') = 7 /\ due'[1] = "nl" /\ due'[2] = "nl" /\ due'[3] = "nl"
      /\ due'[4] = "a" /\ due'[5] = "nl" /\ due'[6] = "nl" /\ due'[7] = "cr"
  <2>1. due' = <<>> \o Puts(<<"nl", "nl", "nl">> \o Line)
    BY DEF Say
  <2> QED
    BY <2>1 DEF Puts, Line
<1>2. Back(due, 5)' /\ Back(due, 6)'
  BY <1>1 DEF Back
<1>3. \A n \in 1 .. Len(due') :
        due'[n] = "nl" => Back(due', n) \/ \A m \in 1 .. n : due'[m] = "nl"
  <2>1. \A n \in 1 .. 7 : due'[n] = "nl" => n \in {5, 6} \/ n \in 1 .. 3
    BY <1>1
  <2>2. \A n \in {5, 6} : Back(due', n)
    BY <1>2 DEF Back
  <2>3. \A n \in 1 .. 3 : \A m \in 1 .. n : due'[m] = "nl"
    BY <1>1
  <2> QED
    BY <1>1, <2>1, <2>2, <2>3
<1> QED
  BY <1>3 DEF Neat, Back

\* The cursor follows what leaves the UART.
LEMMA ShiftKeepsNeat ==
  ASSUME due \in Seq(Char), due # <<>>, Neat, due' = Tail(due),
         cursor' = Moved(Head(due))
  PROVE  Neat'
<1>1. /\ Len(due) \in Nat /\ Len(due) # 0 /\ Len(due') = Len(due) - 1
      /\ Head(due) = due[1] /\ due[1] \in Char
      /\ \A i \in 1 .. Len(due) - 1 : due'[i] = due[i + 1]
  BY HeadTailProperties, EmptySeq
<1>2. cursor = "below" => due[1] # "a" /\ (due[1] = "nl" => Back(due, 1))
  <2> SUFFICES ASSUME cursor = "below"
               PROVE  due[1] # "a" /\ (due[1] = "nl" => Back(due, 1))
    OBVIOUS
  <2>1. PICK k \in 1 .. Len(due) : due[k] = "cr" /\ \A m \in 1 .. k : due[m] # "a"
    BY DEF Neat, Back
  <2>2. due[1] # "a"
    BY <2>1
  <2>3. due[1] = "nl" => k \in 2 .. Len(due) /\ \A m \in 2 .. k : due[m] # "a"
    BY <2>1
  <2>4. due[1] = "nl" => Back(due, 1)
    BY <1>1, <2>1, <2>3 DEF Back
  <2> QED
    BY <2>2, <2>4
<1>3. cursor' = IF due[1] = "cr" THEN "left"
                ELSE IF due[1] = "nl" THEN IF cursor = "mid" THEN "below" ELSE cursor
                ELSE "mid"
  BY <1>1, <1>2 DEF Moved, Neat, Char
<1>4. cursor' = "below" => Back(Tail(due), 0)
  <2> SUFFICES ASSUME cursor' = "below" PROVE Back(Tail(due), 0)
    OBVIOUS
  <2>1. due[1] = "nl" /\ cursor \in {"mid", "below"}
    BY <1>3 DEF Neat
  <2>2. Back(due, 1)
    BY <1>1, <1>2, <2>1 DEF Neat
  <2>3. 1 \in 1 .. Len(due) /\ 1 - 1 = 0
    BY <1>1
  <2>4. Back(Tail(due), 1 - 1)
    BY <2>2, <2>3, BackOfTail
  <2> QED
    BY <2>4
<1>5. ASSUME NEW n \in 1 .. Len(due) - 1, due'[n] = "nl"
      PROVE  \/ Back(Tail(due), n)
             \/ cursor' = "left" /\ \A m \in 1 .. n : due'[m] = "nl"
  <2>1. n + 1 \in 1 .. Len(due) /\ due[n + 1] = "nl" /\ (n + 1) - 1 = n
    BY <1>1, <1>5
  <2>2. CASE Back(due, n + 1)
    <3>1. Back(Tail(due), (n + 1) - 1)
      BY <2>1, <2>2, BackOfTail
    <3> QED
      BY <2>1, <3>1
  <2>3. CASE cursor = "left" /\ \A m \in 1 .. n + 1 : due[m] = "nl"
    <3>1. due[1] = "nl" /\ \A m \in 1 .. n : due[m + 1] = "nl" /\ m \in 1 .. Len(due) - 1
      BY <1>1, <2>3
    <3> QED
      BY <1>1, <1>3, <2>3, <3>1
  <2> QED
    BY <2>1, <2>2, <2>3 DEF Neat
<1>6. cursor' \in {"left", "mid", "below"}
  BY <1>3 DEF Neat
<1> QED
  BY <1>1, <1>4, <1>5, <1>6 DEF Neat, Back

\* Every message of main but the first is made of neat calls.
LEMMA CallsAreNeat ==
  /\ \A text \in Seq(Char) : Fmt(text) \in NeatCall
  /\ \A text \in {<<>>, <<"a">>, Line} : Put(text) \in NeatCall
  /\ Wait \in NeatCall /\ Hexdump \in NeatCall
<1>1. \A text \in Seq(Char) : Fmt(text) \in NeatCall
  BY CallsAreCalls, PrintfIsClosed DEF Fmt, NeatCall, Sent
<1>2. \A text \in {<<>>, <<"a">>, Line} : Put(text) \in NeatCall
  BY TextsAreText, CallsAreCalls, PutsAreClosed DEF Put, NeatCall, Sent
<1>3. Wait \in NeatCall
  BY TextsAreText, CallsAreCalls, PrintfIsClosed DEF Wait, NeatCall, Sent
<1>4. Hexdump \in NeatCall
  <2>1. Line \o Line \o Line \in Seq(Char)
    BY TextsAreText, ConcatProperties
  <2> QED
    BY <1>1, <2>1 DEF Hexdump
<1> QED
  BY <1>1, <1>2, <1>3, <1>4

\* Behind each of Boot's steps what main says is made of neat calls.
LEMMA MessagesAreNeat ==
  /\ <<>> \in Seq(NeatCall) /\ SetupMessages \in Seq(NeatCall)
  /\ TestMessages \in Seq(NeatCall) /\ SizeMessages \in Seq(NeatCall)
  /\ CheckMessages \in Seq(NeatCall) /\ CopiedMessages \in Seq(NeatCall)
  /\ PayloadMessages \in Seq(NeatCall)
<1> DEFINE first == <<Fmt(Line), Fmt(Line)>>
           then == IF pc' = "exit" THEN <<Fmt(Line), Wait>>
                   ELSE <<Fmt(<<"nl">> \o Line), Hexdump>>
           before == <<Fmt(<<"cr">> \o Line), Hexdump>>
           behind == IF pc' = "jump" THEN <<Fmt(<<"nl">> \o Line), Fmt(Line)>> ELSE <<Wait>>
<1>1. <<"nl">> \o Line \in Seq(Char) /\ <<"cr">> \o Line \in Seq(Char)
  BY TextsAreText, ConcatProperties
<1>2. /\ Fmt(Line) \in NeatCall /\ Fmt(<<"a">>) \in NeatCall
      /\ Fmt(<<"nl", "a">>) \in NeatCall /\ Fmt(<<"nl">> \o Line) \in NeatCall
      /\ Fmt(<<"cr">> \o Line) \in NeatCall
      /\ Put(<<>>) \in NeatCall /\ Put(<<"a">>) \in NeatCall /\ Put(Line) \in NeatCall
      /\ Wait \in NeatCall /\ Hexdump \in NeatCall
  BY <1>1, TextsAreText, CallsAreNeat
<1>3. first \in Seq(NeatCall) /\ then \in Seq(NeatCall)
      /\ before \in Seq(NeatCall) /\ behind \in Seq(NeatCall)
  BY <1>2
<1>4. TestMessages = first \o then /\ CopiedMessages = before \o behind
  BY DEF TestMessages, CopiedMessages
<1>5. SetupMessages \in Seq(NeatCall)
  BY <1>2 DEF SetupMessages
<1>6. SizeMessages \in Seq(NeatCall)
  BY <1>2 DEF SizeMessages
<1>7. CheckMessages \in Seq(NeatCall)
  BY <1>2 DEF CheckMessages
<1>8. PayloadMessages \in Seq(NeatCall)
  BY <1>2 DEF PayloadMessages
<1>9. TestMessages \in Seq(NeatCall) /\ CopiedMessages \in Seq(NeatCall)
  <2> HIDE DEF first, then, before, behind
  <2> QED
    BY <1>3, <1>4, ConcatProperties
<1> QED
  BY <1>5, <1>6, <1>7, <1>8, <1>9

\* So is what main says to an answer.
LEMMA AnswersAreNeat ==
  ASSUME pc' \in {"payload", "exit", "halt"} PROVE AnswerMessages \in Seq(NeatCall)
<1>1. AnswerMessages = IF pc' = "payload" THEN <<>>
                       ELSE IF pc' = "exit" THEN <<Wait>> ELSE <<Put(<<"a">>)>>
  BY DEF AnswerMessages
<1> QED
  BY <1>1, TextsAreText, CallsAreNeat

\* What is due is characters.
LEMMA DueIsText == ASSUME IInv PROVE due \in Seq(Char)
BY ConcatProperties DEF IInv, Sending, NothingIsDropped

\* A step that shows nothing, says nothing and leaves neat calls to be made.
LEMMA QuietKeepsLines ==
  ASSUME LinesInv, UNCHANGED <<due, cursor, restarts>>,
         restarts = 0 => script' \in Seq(NeatCall) \/ script' = script
  PROVE  LinesInv'
<1>1. ASSUME restarts = 0 PROVE Neat'
  BY <1>1 DEF LinesInv, Neat, Back
<1> QED
  BY <1>1 DEF LinesInv

\* Boot's steps and the look at an answer: main speaks next.
LEMMA MainKeepsLines ==
  ASSUME LinesInv, \/ SetupPsram \/ TestExecutability \/ GetSizes \/ CheckSize \/ CopyBlock
                   \/ Fault \/ Copied \/ JumpToKernel \/ PayloadReturns \/ LookAtAnswer
  PROVE  LinesInv'
<1>1. CASE LookAtAnswer
  <2>1. /\ script' = AnswerMessages /\ UNCHANGED <<due, cursor, restarts>>
        /\ pc' \in {"payload", "exit", "halt"}
    BY <1>1 DEF LookAtAnswer, After, Main!Answered
  <2> QED
    BY <2>1, AnswersAreNeat, QuietKeepsLines
<1>2. CASE ~LookAtAnswer
  <2>1. UNCHANGED <<due, cursor, restarts>>
    BY <1>2
    DEF SetupPsram, TestExecutability, GetSizes, CheckSize, CopyBlock, Fault, Copied,
        JumpToKernel, PayloadReturns, Does, console, Main!SetupPsram, Main!AfterSetup,
        Main!TestExecutability, Main!GetSizes, Main!CheckSize, Main!CopyBlock, Main!Fault,
        Main!Copied, Main!JumpToKernel, Main!PayloadReturns, Main!world
  <2>2. script' \in {<<>>, SetupMessages, TestMessages, SizeMessages, CheckMessages,
                     CopiedMessages, PayloadMessages}
    BY <1>2
    DEF SetupPsram, TestExecutability, GetSizes, CheckSize, CopyBlock, Fault, Copied,
        JumpToKernel, PayloadReturns, Does
  <2>3. script' \in Seq(NeatCall)
    BY <2>2, MessagesAreNeat
  <2> QED
    BY <2>1, <2>3, QuietKeepsLines
<1> QED
  BY <1>1, <1>2

\* A call, of those that are neat or the first of all.
LEMMA NextCallKeepsLines == ASSUME IInv, LinesInv, NextCall PROVE LinesInv'
<1>1. /\ script # <<>> /\ script' = Tail(script) /\ UNCHANGED <<cursor, restarts>>
      /\ LET c == Head(script)
         IN  Say(IF c.f = "puts" THEN Puts(c.text) ELSE Printf(c.text))
  BY DEF NextCall, Begin, main
<1>2. CASE script \in Seq(NeatCall)
  <2>1. Head(script) \in NeatCall /\ Tail(script) \in Seq(NeatCall)
    BY <1>1, <1>2, HeadTailProperties
  <2>2. Head(script).text \in Seq(Char) /\ Closed(Sent(Head(script)))
    BY <2>1 DEF NeatCall, Call
  <2>3. Say(Sent(Head(script))) /\ Sent(Head(script)) \in Seq(Char)
    BY <1>1, <2>2, SentIsText DEF Sent
  <2>4. restarts = 0 => Neat'
    BY <1>1, <2>2, <2>3, DueIsText, SayKeepsNeat DEF LinesInv
  <2> QED
    BY <1>1, <2>1, <2>4 DEF LinesInv
<1>3. CASE script = Banner /\ due = <<>> /\ cursor = "left"
  <2>1. Head(script) = Put(<<"nl", "nl", "nl">> \o Line) /\ script' = <<>>
    BY <1>1, <1>3 DEF Banner
  <2>2. Say(Puts(<<"nl", "nl", "nl">> \o Line))
    <3> DEFINE c == Head(script)
    <3>1. Say(IF c.f = "puts" THEN Puts(c.text) ELSE Printf(c.text))
      BY <1>1
    <3>2. c.f = "puts" /\ c.text = <<"nl", "nl", "nl">> \o Line
      BY <2>1 DEF Put
    <3> HIDE DEF c
    <3> QED
      BY <3>1, <3>2
  <2>3. Neat'
    BY <1>1, <1>3, <2>2, BannerIsNeat
  <2>4. script' \in Seq(NeatCall)
    BY <2>1
  <2> QED
    BY <1>1, <2>3, <2>4 DEF LinesInv
<1>4. CASE restarts # 0
  BY <1>1, <1>4 DEF LinesInv
<1> QED
  BY <1>2, <1>3, <1>4 DEF LinesInv

\* While main waits for a key, the banner is behind it.
LEMMA SpeechKeepsLines ==
  ASSUME IInv, LinesInv, script = <<>>, UNCHANGED <<cursor, restarts, script>>,
         NEW text \in Seq(Char), Closed(text), Say(text)
  PROVE  LinesInv'
<1>1. script \in Seq(NeatCall)
  OBVIOUS
<1>2. restarts = 0 => Neat'
  BY DueIsText, SayKeepsNeat DEF LinesInv
<1> QED
  BY <1>1, <1>2 DEF LinesInv

\* Only the prompts of wait_for_input and its line feed say more.
LEMMA CoreKeepsLines ==
  ASSUME IInv, LinesInv, Core, UNCHANGED <<main, script>> PROVE LinesInv'
<1>0. UNCHANGED <<restarts, script>>
  BY DEF main
<1>1. CASE Poll \/ Send \/ Printed
  <2>1. UNCHANGED <<due, cursor>>
    BY <1>1 DEF Poll, Send, Printed
  <2> QED
    BY <1>0, <2>1, QuietKeepsLines
<1>2. CASE NoKey \/ GetKey
  <2>1. phase = "getc" /\ UNCHANGED cursor
    BY <1>2 DEF NoKey, GetKey
  <2>2. script = <<>> /\ call.text \in Seq(Char)
    BY <2>1 DEF IInv, Waiting, Call
  <2>3. Say(Printf(call.text)) \/ Say(Puts(<<>>))
    BY <1>2 DEF NoKey, GetKey
  <2>4. /\ Printf(call.text) \in Seq(Char) /\ Closed(Printf(call.text))
        /\ Puts(<<>>) \in Seq(Char) /\ Closed(Puts(<<>>))
    BY <2>2, SentIsText, PrintfIsClosed, PutsAreClosed, TextsAreText
  <2> QED
    BY <1>0, <2>1, <2>2, <2>3, <2>4, SpeechKeepsLines
<1> QED
  BY <1>1, <1>2 DEF Core

\* What leaves the FIFO is the first that is due.
LEMMA TransmitsKeepsLines == ASSUME IInv, LinesInv, Transmits PROVE LinesInv'
<1>1. /\ tx # <<>> /\ due' = Tail(due) /\ cursor' = Moved(Head(tx))
      /\ UNCHANGED <<restarts, script>>
  BY DEF Transmits, Shift, main
<1>2. /\ tx \in Seq(Char) /\ todo \in Seq(Char) /\ due = tx \o todo /\ due \in Seq(Char)
  BY ConcatProperties DEF IInv, Sending, NothingIsDropped
<1>3. due # <<>> /\ Head(due) = Head(tx)
  <2>1. Len(tx) \in Nat /\ Len(tx) # 0 /\ Len(todo) \in Nat
    BY <1>1, <1>2, EmptySeq
  <2>2. Len(due) = Len(tx) + Len(todo) /\ due[1] = tx[1]
    BY <1>2, <2>1, ConcatProperties
  <2> QED
    BY <1>1, <1>2, <2>1, <2>2, HeadTailProperties, EmptySeq
<1>4. restarts = 0 => Neat'
  BY <1>1, <1>2, <1>3, ShiftKeepsNeat DEF LinesInv
<1>5. restarts = 0 => script \in Seq(NeatCall)
  BY <1>3 DEF LinesInv
<1> QED
  BY <1>1, <1>4, <1>5 DEF LinesInv

\* Every step keeps the invariant.
LEMMA LinesKept == ASSUME IInv, LinesInv, [Next]_vars PROVE LinesInv'
<1>1. CASE Runs
  BY <1>1, MainKeepsLines, NextCallKeepsLines, CoreKeepsLines DEF Runs
<1>2. CASE PayloadReturns
  BY <1>2, MainKeepsLines
<1>3. CASE Transmits
  BY <1>3, TransmitsKeepsLines
<1>4. CASE Types
  <2>1. UNCHANGED <<due, cursor, restarts, script>>
    BY <1>4 DEF Types, Press, main
  <2> QED
    BY <2>1, QuietKeepsLines
<1>5. CASE Restart
  <2>1. restarts' = restarts + 1
    BY <1>5 DEF Restart, Main!Restart
  <2> QED
    BY <2>1 DEF LinesInv
<1>6. CASE UNCHANGED vars
  <2>1. UNCHANGED <<due, cursor, restarts, script>>
    BY <1>6 DEF vars, console, main
  <2> QED
    BY <2>1, QuietKeepsLines
<1> QED
  BY <1>1, <1>2, <1>3, <1>4, <1>5, <1>6 DEF Next

\* Before a restart no line of main's is shown below the end of another, although
\* puts sends the line feeds of its text as they are.
THEOREM LinesStartAtTheLeftAlways == Spec => []LinesStartAtTheLeft
<1>1. Init => LinesInv
  BY DEF Init, Silent, Main!Init, LinesInv, Neat
<1>2. IInv /\ LinesInv /\ [Next]_vars => LinesInv'
  BY LinesKept
<1>3. LinesInv => LinesStartAtTheLeft
  BY DEF LinesInv, Neat, LinesStartAtTheLeft
<1> QED
  BY <1>1, <1>2, <1>3, Inductive, PTL DEF Spec
=============================================================================
