------------------------------ MODULE SpeechText ------------------------------
(* What of a streamed answer is spoken: ResponseEmotionStreamRouter takes the  *)
(* leading emotion tag away, and StreamingSpeechChunker cuts the rest into     *)
(* clauses.                                                                    *)
(*                                                                             *)
(* The answer is written in `text', symbol by symbol: "a" is a visible         *)
(* character, "." a boundary and " " a space; "tag" is an emotion tag, "ta"    *)
(* and "g" its two halves; "<" and ">" open and close a thought, "th" and     *)
(* "ink" are the opening in two pieces; "mark" asks for a follow-up, "ma" and  *)
(* "rk" are its two pieces (a "[" alone, and what is left); "tool" is the None *)
(* between two rounds of the agent.  The other variables hold positions in it. *)
EXTENDS Naturals, FiniteSets, Sequences, FiniteSetsExt

CONSTANTS MinChars, HardChars, MaxText

ASSUME SpeechAssumption == MinChars \in Nat \ {0} /\ HardChars \in Nat /\ HardChars > MinChars

Symbol == {"a", ".", " ", "tag", "ta", "g", "<", "th", "ink", ">", "mark", "ma", "rk", "tool"}
Brackets == {"tag", "ta", "mark"}    \* they begin with "[["
Halves == {"ma", "th"}               \* which the chunker cannot tell from text

VARIABLES
  text,
  held,      \* buffer of the router
  resolved,  \* of the router
  buffer,    \* of the chunker
  said,      \* what the chunks handed on for speech contain
  spoken,    \* the answer is complete and has been flushed
  cut        \* halves of control tokens that were handed on before the rest came

textVars == <<text, held, resolved, buffer, said, spoken, cut>>

Sym(i) == text[i]
Upto(s, n) == SubSeq(s, 1, n)
From(s, n) == SubSeq(s, n + 1, Len(s))

SpeechTextInit ==
  /\ text = <<>> /\ held = <<>> /\ resolved = FALSE
  /\ buffer = <<>> /\ said = <<>> /\ spoken = FALSE /\ cut = {}

------------------------------------------------------------------------------
(* StreamingSpeechChunker, over a sequence b of positions of the text t.      *)

(* The places where a token of S begins; one in two pieces is known by both.  *)
Firsts(t, b, S) ==
  {i \in DOMAIN b : \/ t[b[i]] \in S
                    \/ i < Len(b) /\ t[b[i]] = "ma" /\ "mark" \in S
                    \/ i < Len(b) /\ t[b[i]] = "th" /\ "<" \in S}

(* _strip_closed_think_blocks; there is one block at most, just closed.       *)
Stripped(t, b) ==
  LET opens  == Firsts(t, b, {"<"})
      closes == {i \in Firsts(t, b, {">"}) : \E j \in opens : j < i}
  IN IF closes = {} THEN b ELSE Upto(b, Min(opens) - 1) \o From(b, Min(closes))

(* _speakable_prefix.  Mutant: an open thought is no obstacle.                *)
PrefixOfThoughts(t, b) ==
  LET stops == Firsts(t, b, Brackets)
  IN IF stops = {} THEN b ELSE Upto(b, Min(stops) - 1)

SpeakablePrefix(t, b) ==
  LET stops == Firsts(t, b, Brackets \cup {"<"})
  IN IF stops = {} THEN b ELSE Upto(b, Min(stops) - 1)

(* _next_cut: the first boundary after MinChars visible characters, or, with  *)
(* HardChars of them, the last space or the place itself; 0 is none.          *)
NextCut(t, b) ==
  LET p          == SpeakablePrefix(t, b)
      visible(i) == Cardinality({j \in 1..i : t[p[j]] # " "})
      bounds     == {i \in DOMAIN p : visible(i) >= MinChars /\ t[p[i]] = "."}
      hard       == {i \in DOMAIN p : visible(i) >= HardChars}
      first      == Min(bounds \cup hard)
      spaces     == {i \in 1..first : t[p[i]] = " "}
  IN CASE bounds \cup hard = {} -> 0
       [] bounds \cup hard # {} /\ first \in bounds -> first
       [] bounds \cup hard # {} /\ first \notin bounds ->
            IF spaces = {} THEN first ELSE Max(spaces)

(* clean_for_speech, as far as it matters: spaces are not spoken.             *)
Cleaned(t, b) == SelectSeq(b, LAMBDA i : t[i] # " ")

(* feed, when t has become the text and the positions n come downstream: as   *)
(* long as there is a cut it is made.                                         *)
Consumed(t, b) ==
  LET upto[k \in 0..Len(b)] ==
        IF k = 0 THEN 0 ELSE upto[k - 1] + NextCut(t, From(b, upto[k - 1]))
  IN upto[Len(b)]

Chunks(t, n) ==
  LET b == Stripped(t, buffer \o n)
  IN /\ said' = said \o Cleaned(t, Upto(b, Consumed(t, b)))
     /\ buffer' = From(b, Consumed(t, b))

(* segment_boundary drops what a tool round has left, unless it is blank.     *)
Segments ==
  /\ buffer' = IF \A k \in DOMAIN buffer : Sym(buffer[k]) = " " THEN buffer ELSE <<>>
  /\ UNCHANGED said

(* flush: what is left before a control symbol.                               *)
Flushed(t, b) ==
  LET rest  == Stripped(t, b)
      marks == Firsts(t, rest, {"mark"})
      mark  == {rest[i] : i \in marks} \cup {rest[i] + 1 : i \in {i \in marks : t[rest[i]] = "ma"}}
      tail  == SelectSeq(rest, LAMBDA i : i \notin mark)
      stops == Firsts(t, tail, Brackets)
  IN Cleaned(t, IF stops = {} THEN tail ELSE Upto(tail, Min(stops) - 1))

------------------------------------------------------------------------------
(* The model writes.  A tag begins a round, and a follow-up mark ends it.  A   *)
(* token in two pieces is written to its end or is the last thing written.    *)

RoundStart == LET S == {i \in DOMAIN text : Sym(i) = "tool"} IN IF S = {} THEN 0 ELSE Max(S)
Blank == \A i \in RoundStart + 1..Len(text) : Sym(i) = " "
LastSymbol == IF text = <<>> THEN "tool" ELSE Sym(Len(text))
Thinking == Cardinality({i \in DOMAIN text : Sym(i) \in {"<", "th"}})
            > Cardinality({i \in DOMAIN text : Sym(i) = ">"})

MayWrite(s) ==
  /\ Len(text) < MaxText /\ ~spoken /\ LastSymbol \notin {"mark", "rk"}
  /\ s \in {"tag", "ta"} => Blank
  /\ s = "g" <=> LastSymbol = "ta"
  /\ s = "rk" <=> LastSymbol = "ma"
  /\ s = "ink" <=> LastSymbol = "th"
  /\ s \in {"<", "th"} => ~Thinking
  /\ s = ">" => Thinking

(* The router's feed, of a delta that is no None.                             *)
Leading(t, h) == From(h, Cardinality({k \in DOMAIN h : \A j \in 1..k : t[h[j]] = " "}))
Complete(t, l) == l # <<>> /\ (t[l[1]] = "tag" \/ (Len(l) > 1 /\ t[l[1]] = "ta" /\ t[l[2]] = "g"))
Waiting(t, l) == l = <<>> \/ (Len(l) = 1 /\ t[l[1]] \in {"ta", "ma"})

Writes(s) ==
  /\ s # "tool" /\ MayWrite(s)
  /\ text' = Append(text, s)
  /\ LET n == Len(text) + 1
         h == Append(held, n)
         l == Leading(text', h)
     IN CASE resolved -> UNCHANGED <<held, resolved>> /\ Chunks(text', <<n>>)
          [] ~resolved /\ Complete(text', l) ->
               held' = <<>> /\ resolved' = TRUE /\ UNCHANGED <<buffer, said>>
          [] ~resolved /\ Waiting(text', l) ->
               held' = h /\ UNCHANGED <<resolved, buffer, said>>
          [] OTHER -> held' = <<>> /\ resolved' = TRUE /\ Chunks(text', h)
  /\ cut' = cut \cup {i \in {Len(text')} : s \in Halves /\ \E k \in DOMAIN said' : said'[k] = i}
  /\ UNCHANGED spoken

(* A None goes past the router unless it holds something back.                *)
CallsTool ==
  /\ MayWrite("tool")
  /\ text' = Append(text, "tool")
  /\ IF resolved \/ held = <<>> THEN Segments ELSE UNCHANGED <<buffer, said>>
  /\ UNCHANGED <<held, resolved, spoken, cut>>

(* finalize and finish.                                                       *)
Finalizes ==
  /\ ~spoken /\ text # <<>>
  /\ spoken' = TRUE /\ held' = <<>> /\ resolved' = TRUE
  /\ said' = said \o Flushed(text, buffer) /\ buffer' = <<>>
  /\ UNCHANGED <<text, cut>>

SpeechTextNext == (\E s \in Symbol : Writes(s)) \/ CallsTool \/ Finalizes

SpeechTextSpec == SpeechTextInit /\ [][SpeechTextNext]_textVars

------------------------------------------------------------------------------
SpeechTextTypeOK ==
  /\ text \in Seq(Symbol) /\ Len(text) <= MaxText
  /\ \A s \in {held, buffer, said} : s \in Seq(DOMAIN text)
  /\ resolved \in BOOLEAN /\ spoken \in BOOLEAN /\ cut \subseteq DOMAIN text
  /\ NextCut(text, buffer) = 0

(* The thought that was opened at j goes on at i.                             *)
Thought(j, i) == j <= i /\ Sym(j) \in {"<", "th"} /\ \A k \in j..i - 1 : Sym(k) # ">"

Speakable(i) == Sym(i) \in {"a", "."} /\ \A j \in 1..i : ~Thought(j, i)

(* It was not closed before a round of tools or the end of the answer.        *)
LeftOpen(j) ==
  \/ \E k \in j..Len(text) : Sym(k) = "tool" /\ Thought(j, k)
  \/ spoken /\ Sym(Len(text)) # ">" /\ Thought(j, Len(text))

(* What the code speaks though it is control: the hard limit fell between the *)
(* pieces of a token, a thought was left open, or the answer breaks off in a  *)
(* token's first piece.                                                       *)
Escapes(i) ==
  \/ \E j \in 1..i : Thought(j, i) /\ (j \in cut \/ LeftOpen(j))
  \/ Sym(i) = "ma" /\ (i \in cut \/ i = Len(text))
  \/ Sym(i) = "rk" /\ i - 1 \in cut

(* docs/ARCHITECTURE.zh-CN.md:103 says that thoughts, tags and follow-up      *)
(* marks never reach the speaker.  The code keeps that for every token that   *)
(* arrives in one piece, and for one that arrives in two unless the hard      *)
(* limit of a clause falls exactly between them; a tag never, a mark or a     *)
(* thought in no other way but by a thought that is not closed (Escapes).     *)
(* What is spoken was written in this order, and of an answer without tool    *)
(* rounds that is heard at all nothing is missing (feed, flush).              *)
SpokenAsWritten ==
  /\ \A k \in DOMAIN said : /\ Speakable(said[k]) \/ Escapes(said[k])
                            /\ \A j \in 1..k - 1 : said[j] < said[k]
  /\ spoken /\ said # <<>> /\ RoundStart = 0 =>
       \A i \in DOMAIN text : Speakable(i) => \E k \in DOMAIN said : said[k] = i

(* docs/MAINTENANCE.zh-CN.md:132: the answer streams, or else it is read as a *)
(* whole (which happens if nothing has been heard): the final round is never  *)
(* cut short.                                                                 *)
AnswerIsHeard ==
  spoken /\ said # <<>> =>
    \A i \in RoundStart + 1..Len(text) : Speakable(i) => \E k \in DOMAIN said : said[k] = i
==============================================================================
