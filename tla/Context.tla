------------------------------- MODULE Context -------------------------------
(***************************************************************************)
(* What goes into a run's context (conversations/context.py): the greedy   *)
(* selection under a budget per source and two budgets for the whole, and  *)
(* the thread summary's own limit.  A text is its length and its estimated *)
(* number of tokens.                                                       *)
(***************************************************************************)
EXTENDS Integers, Sequences, SequencesExt

CONSTANTS
  Texts,       \* the texts considered: [size, tokens]
  MaxTexts,    \* bound: texts per source
  Budgets,     \* the ContextBuilder parameters considered
  SummaryLimits \* max_characters of the summaries considered

ASSUME ContextAssumption ==
  /\ Texts \subseteq [size: Nat, tokens: Nat] /\ MaxTexts \in Nat
  /\ Budgets \subseteq [total: Nat, tokens: Nat, messages: Nat, summary: Nat,
                        memories: Nat, artifacts: Nat]
  /\ SummaryLimits \subseteq Int

VARIABLE sources  \* what build reads, and the budgets it was given
contextVars == <<sources>>

ContextInit ==
  sources \in [messages: SeqOf(Texts, MaxTexts), summary: SeqOf(Texts, 1),
               memories: SeqOf(Texts, MaxTexts), artifacts: SeqOf(Texts, 1),
               config: Texts, permissions: Texts, budgets: Budgets]

-----------------------------------------------------------------------------
\* w[1] + ... + w[n]
Total(w, n) ==
  LET upto[i \in 0..n] == IF i = 0 THEN 0 ELSE upto[i - 1] + w[i] IN upto[n]
Size(s) == Total([i \in DOMAIN s |-> s[i].size], Len(s))
Tokens(s) == Total([i \in DOMAIN s |-> s[i].tokens], Len(s))

\* take: one pass in the given order; a text that does not fit is passed over.
\* left is what remains of the whole budget.
Spend(left, t) == [size |-> left.size - t.size, tokens |-> left.tokens - t.tokens]
Fits_Alone(left, t, budget) == t.size <= budget /\ t.tokens <= left.tokens
Fits(left, t, budget) ==
  t.size <= budget /\ t.size <= left.size /\ t.tokens <= left.tokens
TakeOne(a, t, budget) ==
  IF Fits(a.left, t, budget - a.used)
  THEN [left |-> Spend(a.left, t), used |-> a.used + t.size, chosen |-> Append(a.chosen, t)]
  ELSE a
take(left, values, budget) ==
  LET after[i \in 0..Len(values)] ==
        IF i = 0 THEN [left |-> left, used |-> 0, chosen |-> <<>>]
        ELSE TakeOne(after[i - 1], values[i], budget)
  IN after[Len(values)]

\* build: permissions, messages from the newest on, the summary, memories by
\* score, artifacts, the configuration and last the memories' provenance.
build(s) ==
  LET total == [size |-> s.budgets.total, tokens |-> s.budgets.tokens]
      permissions == take(total, <<s.permissions>>, s.budgets.total)
      messages == take(permissions.left, Reverse(s.messages), s.budgets.messages)
      summary == take(messages.left, s.summary, s.budgets.summary)
      memories == take(summary.left, s.memories, s.budgets.memories)
      artifacts == take(memories.left, s.artifacts, s.budgets.artifacts)
      config == take(artifacts.left, <<s.config>>, artifacts.left.size)
      provenance == take(config.left, memories.chosen, config.left.size)
  IN [messages |-> Reverse(messages.chosen), summary |-> summary.chosen,
      memories |-> memories.chosen, artifacts |-> artifacts.chosen,
      rest |-> permissions.chosen \o config.chosen \o provenance.chosen,
      character_count |-> s.budgets.total - provenance.left.size,
      token_estimate |-> s.budgets.tokens - provenance.left.tokens]

\* ThreadSummaryService.create: whole messages from the oldest on, one per
\* line, up to the first that does not fit.
OneLine_NoNewline(a, t) ==
  IF a.over \/ t.size > a.left THEN [left |-> a.left, over |-> TRUE, lines |-> a.lines]
  ELSE [left |-> a.left - t.size, over |-> FALSE, lines |-> Append(a.lines, t)]
OneLine(a, t) ==
  IF a.over \/ t.size > a.left THEN [left |-> a.left, over |-> TRUE, lines |-> a.lines]
  ELSE [left |-> a.left - t.size - 1, over |-> FALSE, lines |-> Append(a.lines, t)]
AtLeastOne(max) == IF max < 1 THEN 1 ELSE max
SummaryLines(messages, max) ==
  LET after[i \in 0..Len(messages)] ==
        IF i = 0 THEN [left |-> AtLeastOne(max), over |-> FALSE, lines |-> <<>>]
        ELSE OneLine(after[i - 1], messages[i])
  IN after[Len(messages)].lines

-----------------------------------------------------------------------------
\* Every source keeps to its own budget, everything together to the two budgets
\* of the whole, and the counts a run records are those of what it was given.
BundleWithinBudget ==
  LET b == build(sources)
      all == b.messages \o b.summary \o b.memories \o b.artifacts \o b.rest IN
  /\ Size(all) = b.character_count /\ b.character_count <= sources.budgets.total
  /\ Tokens(all) = b.token_estimate /\ b.token_estimate <= sources.budgets.tokens
  /\ Size(b.messages) <= sources.budgets.messages
  /\ Size(b.summary) <= sources.budgets.summary
  /\ Size(b.memories) <= sources.budgets.memories
  /\ Size(b.artifacts) <= sources.budgets.artifacts

\* A summary, newlines included, is no longer than max_characters (and one
\* character when that is less), and covers
\* the thread from its first message without a gap.
SummaryIsPrefix ==
  \A max \in SummaryLimits :
    LET lines == SummaryLines(sources.messages, max) IN
    /\ IsPrefix(lines, sources.messages)
    /\ lines # <<>> => Size(lines) + Len(lines) - 1 <= AtLeastOne(max)

\* Both texts cut from a conversation stay within their limits without
\* leaving a gap: the bundle of a run and the thread's summary.
ContextFits ==
  /\ BundleWithinBudget
  /\ SummaryIsPrefix
=============================================================================
