----------------------------- MODULE ModelFallback -----------------------------
(***************************************************************************)
(* Fallback from model to model: the chain of candidates and the loops of  *)
(* FallbackChatClient (backend/llm/fallback_chat_client.py: astream and    *)
(* agenerate) and of try_with_fallback (backend/llm/provider_fallback.py). *)
(* The calls of a turn share one client, and with it last_model_id, which  *)
(* the conversation loop (backend/engine/conversation_loop.py) reads when  *)
(* a stream has ended.                                                     *)
(*                                                                         *)
(* Abstractions.  Errors are known by their class: quota, transient (a     *)
(* timeout, an overload), schema (the provider rejects the history),       *)
(* vision (it rejects images) and other, the failure to load a client      *)
(* among them.  What the user configured (order, keys, which models see    *)
(* images, the model for images) is chosen once.  The managed llama.cpp    *)
(* sidecar and the callback on_model_switch, which no caller passes, are   *)
(* left out.                                                               *)
(***************************************************************************)
EXTENDS Integers, Sequences, FiniteSets, SequencesExt

CONSTANTS
  Models, NoModel,  \* model ids, and the empty id
  Providers,
  ProviderOf,       \* the provider of each id
  Calls,            \* calls that run side by side
  KindOf,           \* "stream", "generate" or "function" (try_with_fallback)
  Primaries,        \* primary models to choose from
  Orders,           \* configured orders to choose from
  ImageModels       \* configured models for images to choose from

Errors == {"quota", "transient", "schema", "vision", "other"}

\* The values of the constants a configuration may take.
Parameters ==
  /\ NoModel \in Models /\ ProviderOf \in [Models -> Providers]
  /\ Orders \subseteq Seq(Models \ {NoModel}) /\ Orders # {}
  /\ Primaries \subseteq Models /\ ImageModels \subseteq Models
  /\ KindOf \in [Calls -> {"stream", "generate", "function"}]

VARIABLES
  config,   \* what the user configured, and the messages: primary, order, keys, sees, image, images
  call,     \* each call
  last,     \* last_model_id of the client
  switches  \* the switches of each call, as record_switch keeps them

vars == <<config, call, last, switches>>

Outcomes == Errors \cup {"none", "answered", "exhausted"}

TypeOK ==
  /\ config.primary \in Models /\ config.order \in Orders /\ config.image \in Models
  /\ config.keys \subseteq Providers /\ config.sees \subseteq Models
  /\ last \in Models
  /\ \A c \in Calls :
       /\ call[c].at \in {"new", "trying", "streaming", "over"}
       /\ call[c].candidates \in Seq(Models)
       /\ call[c].tried <= Len(call[c].candidates)
       /\ call[c].failed \in Seq(Errors)
       /\ call[c].spoke \subseteq Models
       /\ call[c].outcome \in Outcomes /\ call[c].billed \in Models
       /\ switches[c] \in Seq(Models \X Models)

Fresh == [at |-> "new", candidates |-> <<>>, tried |-> 0, failed |-> <<>>,
          spoke |-> {}, outcome |-> "none", billed |-> NoModel]

Init ==
  /\ config \in [primary : Primaries, order : Orders, keys : SUBSET Providers,
                 sees : SUBSET (Models \ {NoModel}), image : ImageModels, images : BOOLEAN]
  /\ call = [c \in Calls |-> Fresh]
  /\ last = NoModel
  /\ switches = [c \in Calls |-> <<>>]

-----------------------------------------------------------------------------
(* The candidates.                                                         *)

HasKey(m) == ProviderOf[m] \in config.keys

\* The places of a sequence that are kept, in their order.
Kept(s, places) ==
  LET kept[n \in 0..Len(s)] ==
        IF n = 0 THEN <<>>
        ELSE IF n \in places THEN Append(kept[n - 1], s[n]) ELSE kept[n - 1]
  IN  kept[Len(s)]

Where(s, set) == Kept(s, {i \in DOMAIN s : s[i] \in set})

\* get_fallback_chain: no model of the provider whose quota is spent, none without a key.
Chain(primary) ==
  Where(config.order, {m \in Models : ProviderOf[m] # ProviderOf[primary] /\ HasKey(m)})

Deduped(s) ==
  Kept(s, {i \in DOMAIN s : s[i] # NoModel /\ \A j \in 1..(i - 1) : s[j] # s[i]})

\* _candidates: with images, only fallbacks that see, and the model for images.
Candidates(primary) ==
  LET image == IF config.image \in config.sees /\ HasKey(config.image)
               THEN <<config.image>> ELSE <<>>
      chain == IF config.images THEN Where(Chain(primary), config.sees) \o image
               ELSE Chain(primary)
  IN Deduped(<<primary>> \o chain)

CandidatesOf(c) ==
  IF KindOf[c] = "function" THEN <<config.primary>> \o Chain(config.primary)
  ELSE Candidates(config.primary)

-----------------------------------------------------------------------------
(* The loops.                                                              *)

Model(c) == call[c].candidates[call[c].tried]
Shared(c) == KindOf[c] # "function"

Ends(c, outcome) ==
  call' = [call EXCEPT ![c].at = "over", ![c].outcome = outcome]

\* The next candidate; the client notes it before it loads it.
TryNext(c, changed) ==
  LET n == changed.tried + 1 IN
  /\ call' = [call EXCEPT ![c] = [changed EXCEPT !.at = "trying", !.tried = n]]
  /\ last' = IF Shared(c) THEN changed.candidates[n] ELSE last

Start(c) ==
  /\ call[c].at = "new"
  /\ IF CandidatesOf(c) = <<>>
     THEN Ends(c, "exhausted") /\ UNCHANGED last
     ELSE TryNext(c, [call[c] EXCEPT !.candidates = CandidatesOf(c)])
  /\ UNCHANGED <<config, switches>>

\* A piece of the answer.
Chunk(c) ==
  /\ call[c].at \in {"trying", "streaming"} /\ KindOf[c] = "stream"
  /\ call' = [call EXCEPT ![c].at = "streaming", ![c].spoke = @ \cup {Model(c)}]
  /\ UNCHANGED <<config, last, switches>>

\* The answer is complete; its usage is booked on last_model_id.
Answer(c) ==
  /\ call[c].at \in {"trying", "streaming"}
  /\ call' = [call EXCEPT ![c].at = "over", ![c].outcome = "answered",
                          ![c].spoke = @ \cup {Model(c)},
                          ![c].billed = IF Shared(c) THEN last ELSE Model(c)]
  /\ UNCHANGED <<config, last, switches>>

\* A mutant: a stream that has begun is taken up by another model.
GoesOnStreaming(c, e) ==
  \/ call[c].tried > 1
  \/ IF Shared(c) THEN e # "other" ELSE e = "quota"

\* _deve_tentar_proximo, and the condition of try_with_fallback, which asks only about
\* the first error.
GoesOn(c, e) ==
  /\ call[c].at # "streaming"
  /\ \/ call[c].tried > 1
     \/ IF Shared(c) THEN e # "other" ELSE e = "quota"

Switch(c) == <<Model(c), call[c].candidates[call[c].tried + 1]>>

More(c) == call[c].tried < Len(call[c].candidates)

\* A model fails: the error goes to the caller, or the next is tried, or none is left.
Fail(c, e) ==
  LET changed == [call[c] EXCEPT !.failed = Append(@, e)] IN
  /\ call[c].at \in {"trying", "streaming"}
  /\ \/ /\ ~GoesOn(c, e)
        /\ Ends(c, e) /\ UNCHANGED <<last, switches>>
     \/ /\ GoesOn(c, e) /\ More(c)
        /\ TryNext(c, changed)
        /\ switches' = [switches EXCEPT ![c] = Append(@, Switch(c))]
     \/ /\ GoesOn(c, e) /\ ~More(c)
        /\ call' = [call EXCEPT ![c] =
             [changed EXCEPT !.at = "over",
                             !.outcome = IF Shared(c) /\ e = "vision" THEN e ELSE "exhausted"]]
        /\ UNCHANGED <<last, switches>>
  /\ UNCHANGED config

Own(c) == Start(c) \/ Chunk(c) \/ Answer(c) \/ \E e \in Errors : Fail(c, e)
Next == \E c \in Calls : Own(c)

Spec == Init /\ [][Next]_vars

-----------------------------------------------------------------------------
(* Properties.                                                             *)

TriedBy(c) == SubSeq(call[c].candidates, 1, call[c].tried)

\* An answer has one voice: after a piece of it was shown no other model goes on with it.
OneVoice == \A c \in Calls : Cardinality(call[c].spoke) <= 1

\* Fallback is the user's decision: a call tries its primary, and models that the user
\* configured and has a key for; with images, only ones that see them.
OnlyConfigured ==
  \A c \in Calls : \A m \in ToSet(TriedBy(c)) :
    \/ m = config.primary
    \/ /\ m \in ToSet(config.order) \cup {config.image} /\ HasKey(m)
       /\ config.images /\ Shared(c) => m \in config.sees

\* The client tries no model twice, however the order and the model for images repeat it.
NoModelTwice ==
  \A c \in Calls : Shared(c) => Cardinality(ToSet(TriedBy(c))) = call[c].tried

\* A call that gives up has tried all of its candidates, and each of them failed.
GivesUpLast ==
  \A c \in Calls : call[c].outcome = "exhausted" =>
    /\ call[c].tried = Len(call[c].candidates) /\ Len(call[c].failed) = call[c].tried
    /\ call[c].spoke = {}

\* The switches shown to the user are the way from model to model that the call took.
SwitchesAreTheWay ==
  \A c \in Calls :
    /\ Len(switches[c]) = (IF call[c].tried = 0 THEN 0 ELSE call[c].tried - 1)
    /\ \A i \in DOMAIN switches[c] :
         switches[c][i] = <<call[c].candidates[i], call[c].candidates[i + 1]>>

\* At most one call at a time uses the client.
Alone == \A c, d \in Calls : Shared(c) /\ Shared(d) => c = d

\* The usage of an answer is booked on the model that gave it, after any fallback, as long
\* as one call at a time uses the client.
BilledToItsModel ==
  Alone => \A c \in Calls : call[c].outcome = "answered" => call[c].billed \in call[c].spoke

-----------------------------------------------------------------------------
(* What a comment or a docstring says and the code does not keep.  TLC     *)
(* finds these violated, so no configuration checks them (see the README). *)

\* The class QuotaExhaustedError: all the providers of the chain have spent their quota.
ExhaustedIsQuota ==
  \A c \in Calls : call[c].outcome = "exhausted" => ToSet(call[c].failed) \subseteq {"quota"}

\* The docstring of try_with_fallback: errors that are not of quota go to the caller.
OtherErrorsPropagate ==
  \A c \in Calls : KindOf[c] = "function" =>
    \A i \in DOMAIN call[c].failed : i < call[c].tried => call[c].failed[i] = "quota"

=============================================================================
