---- MODULE ProjectWorkspaceProofs ----
(***************************************************************************)
(* Proofs about the page of a project.  First its saves and restores, in   *)
(* ProjectWorkspace, for any number of sessions, any documents and any     *)
(* budget of surprises: Fits(ed) is what a page keeps in order between two *)
(* of its turns; Backed(ed), that its copies come from the log;            *)
(* Faithful(s), what the requests of a session may still bring, those it   *)
(* has abandoned included.  Then its editor, and what is written in its    *)
(* parameter panel.                                                        *)
(***************************************************************************)
EXTENDS ProjectWorkspace, EditorHistory, Parameters, SequenceTheorems,
        FiniteSetTheorems, WellFoundedInduction, TLAPS

Kinds == {"save", "restore"}

(* A restore is flushed by one "ensure" in the chain of saves.             *)
Flushes(chain) == {i \in DOMAIN chain : chain[i] = "ensure"}

Chains == Seq({"autosave", "ensure"})
AtMostOne(S) == \A i, j \in S : i = j

Fits(ed) ==
    /\ ed \in Editors
    /\ ed.phase = "idle" <=> ed.chain = <<>>
    /\ ed.phase \in {"saving", "upserting", "upserted"} => ed.sent \in Copies /\ ed.next \in Copies
    /\ ed.op \in {"flush", "go", "restore"} => ed.target \in Docs
    /\ Flushes(ed.chain) # {} => ed.op = "flush"
    /\ \A i, j \in Flushes(ed.chain) : i = j

(* The store has held d at a revision up to rev.                           *)
Held(d, rev) == \E i \in 1..rev : log[i] = d

Backed(ed) ==
    /\ ed.rev <= Len(log)
    /\ Held(ed.saved.doc, ed.rev)
    /\ ed.phase \in {"saving", "upserting", "upserted"} => Held(ed.next.doc, ed.rev)
    /\ ed.status = "saved" => Held(ed.working.doc, ed.rev)

(* The page waits for the answer to its request of this kind.              *)
Waits(ed, kind) ==
    \/ kind = "save" /\ ed.phase = "saving"
    \/ kind = "restore" /\ ed.op = "restore"

Won(a) == a.at = "committed" \/ (a.at = "done" /\ a.outcome = "ok")

(* A request has been made against a revision that the page has passed; if *)
(* it has won, its answer will be ahead of the page, and then the other    *)
(* one has not.                                                            *)
Promises(ed, kind, a) ==
    /\ a.at = "pending" => a.base <= ed.rev
    /\ Waits(ed, kind) /\ a.at = "committed" => a.base = ed.rev /\ ed.rev < Len(log)
    /\ Waits(ed, kind) /\ a.at = "done" /\ a.outcome = "ok" =>
         ed.rev < a.rev /\ a.rev <= Len(log)

Faithful(s) ==
    /\ \A kind \in Kinds : Promises(editor[s], kind, call[<<s, kind>>])
    /\ \E kind \in Kinds : ~ (Waits(editor[s], kind) /\ Won(call[<<s, kind>>]))

WorkspaceInv ==
    /\ LogTypeOK /\ log # <<>>
    /\ records \in Records
    /\ editor \in [Sessions -> Editors]
    /\ budget \in 0..MaxSurprises
    /\ \A s \in Sessions : Fits(editor[s]) /\ Backed(editor[s]) /\ Faithful(s)

----
(* The chain of saves.                                                     *)

LEMMA TailFlushes ==
    ASSUME NEW chain \in Chains, chain # <<>>, AtMostOne(Flushes(chain))
    PROVE  /\ Head(chain) \in {"autosave", "ensure"} /\ Tail(chain) \in Chains
           /\ AtMostOne(Flushes(Tail(chain)))
           /\ Flushes(Tail(chain)) # {} => Flushes(chain) # {} /\ Head(chain) # "ensure"
           /\ Head(chain) = "ensure" => Flushes(chain) # {}
           /\ Tail(chain) = <<>> <=> Len(chain) = 1
  <1>1. /\ Head(chain) \in {"autosave", "ensure"} /\ Tail(chain) \in Chains
        /\ Len(Tail(chain)) = Len(chain) - 1
        /\ \A i \in 1..Len(Tail(chain)) : Tail(chain)[i] = chain[i + 1]
    BY HeadTailProperties DEF Chains
  <1>2. PICK t \in Chains : t = Tail(chain)  BY <1>1, Zenon
  <1>3. PICK n \in Nat : n = Len(t)  BY DEF Chains
  <1>4. DOMAIN t = 1..n  BY <1>3 DEF Chains
  <1>5. Len(chain) = n + 1 /\ DOMAIN chain = 1..(n + 1)
    <2>1. Len(chain) \in Nat /\ DOMAIN chain = 1..Len(chain)  BY DEF Chains
    <2>2. n = Len(chain) - 1  BY <1>1, <1>2, <1>3, Zenon
    <2> QED  BY <2>1, <2>2
  <1>6. \A i \in 1..n : t[i] = chain[i + 1]  BY <1>1, <1>2, <1>3, Zenon
  <1>7. PICK h : h = Head(chain) /\ h = chain[1]  BY DEF Chains
  <1>8. h = "ensure" => 1 \in Flushes(chain)  BY <1>5, <1>7 DEF Flushes
  <1>9. \A i \in Flushes(t) : i \in 1..n /\ i + 1 \in Flushes(chain) /\ i + 1 # 1
    BY <1>4, <1>5, <1>6 DEF Flushes
  <1>10. AtMostOne(Flushes(t))
    <2>1. ASSUME NEW i \in Flushes(t), NEW j \in Flushes(t)  PROVE i = j
      <3>1. i + 1 = j + 1  BY <1>9 DEF AtMostOne
      <3> QED  BY <1>9, <3>1
    <2> QED  BY <2>1 DEF AtMostOne
  <1>11. Flushes(t) # {} => Flushes(chain) # {} /\ h # "ensure"
    BY <1>8, <1>9 DEF AtMostOne
  <1>12. t = <<>> <=> n = 0  BY <1>3 DEF Chains
  <1>13. t = <<>> <=> Len(chain) = 1  BY <1>5, <1>12
  <1> QED  BY <1>1, <1>2, <1>7, <1>8, <1>10, <1>11, <1>13, Zenon

LEMMA AppendFlushes ==
    ASSUME NEW chain \in Chains, NEW who \in {"autosave", "ensure"},
           who = "ensure" => Flushes(chain) = {}, AtMostOne(Flushes(chain))
    PROVE  /\ Append(chain, who) \in Chains /\ Append(chain, who) # <<>>
           /\ AtMostOne(Flushes(Append(chain, who)))
           /\ who = "autosave" => Flushes(Append(chain, who)) = Flushes(chain)
  <1>1. PICK t : t = Append(chain, who)  OBVIOUS
  <1>2. /\ t \in Chains /\ Len(chain) \in Nat
        /\ DOMAIN chain = 1..Len(chain) /\ DOMAIN t = 1..(Len(chain) + 1)
        /\ \A i \in 1..Len(chain) : t[i] = chain[i]
        /\ t[Len(chain) + 1] = who
    BY <1>1 DEF Chains
  <1>3. t # <<>>  BY <1>2
  <1>4. Flushes(t) = IF who = "ensure" THEN Flushes(chain) \cup {Len(chain) + 1}
                     ELSE Flushes(chain)
    BY <1>2 DEF Flushes
  <1>5. AtMostOne(Flushes(t))  BY <1>4 DEF AtMostOne
  <1> QED  BY <1>1, <1>2, <1>3, <1>4, <1>5

----
(* Pages.                                                                  *)

Requesting == {"saving", "upserting", "upserted"}

LEMMA FitFields ==
    ASSUME NEW ed \in Editors
    PROVE  /\ ed.working \in Copies /\ ed.saved \in Copies /\ ed.rev \in Nat \ {0}
           /\ ed.status \in Statuses /\ ed.timer \in BOOLEAN /\ ed.chain \in Chains
  BY DEF Editors, Chains

(* One flushSave call returns.                                             *)
LEMMA FinishedFits ==
    ASSUME NEW ed, Fits(ed), ed.phase # "idle", NEW status \in Statuses, NEW ok \in BOOLEAN
    PROVE  LET new == Finished(ed, status, ok) IN
           /\ Fits(new) /\ new.status = status
           /\ new.phase \in {"idle", "top"}
           /\ new.op = "restore" <=> ed.op = "restore"
           /\ new.working = ed.working /\ new.saved = ed.saved /\ new.rev = ed.rev
  <1>1. ed \in Editors /\ ed.chain \in Chains /\ ed.chain # <<>>
        /\ AtMostOne(Flushes(ed.chain))
    BY DEF Fits, Editors, Chains, AtMostOne
  <1>2. PICK h, t, new : h = Head(ed.chain) /\ t = Tail(ed.chain)
                         /\ new = Finished(ed, status, ok)
    OBVIOUS
  <1>3. /\ h \in {"autosave", "ensure"} /\ t \in Chains
        /\ AtMostOne(Flushes(t))
        /\ Flushes(t) # {} => Flushes(ed.chain) # {} /\ h # "ensure"
        /\ h = "ensure" => Flushes(ed.chain) # {}
        /\ t = <<>> <=> Len(ed.chain) = 1
    BY <1>1, <1>2, TailFlushes, Zenon
  <1>4. PICK phase, op : /\ phase = NextPhase(ed.chain) /\ op = AfterFlush(ed.op, h, ok)
    OBVIOUS
  <1>5. phase \in {"idle", "top"} /\ (phase = "idle" <=> t = <<>>)
    BY <1>3, <1>4 DEF NextPhase
  <1>6. /\ op \in {None, "flush", "go", "restore"}
        /\ h = "ensure" => ed.op = "flush" /\ op \in {"go", None}
        /\ h # "ensure" => op = ed.op
    BY <1>1, <1>3, <1>4 DEF AfterFlush, Fits, Editors
  <1>7. /\ new.working = ed.working /\ new.saved = ed.saved /\ new.rev = ed.rev
        /\ new.status = status /\ new.phase = phase /\ new.op = op /\ new.chain = t
        /\ new.target = ed.target
        /\ new \in Editors
    BY <1>1, <1>2, <1>3, <1>4, <1>5, <1>6 DEF Finished, Editors, Chains
  <1>8. None \notin {"flush", "go", "restore"}  BY WorkspaceAssumption
  <1>9. new.op = "restore" <=> ed.op = "restore"  BY <1>3, <1>6, <1>7, <1>8
  <1>10. Fits(new)
    <2>1. new.phase = "idle" <=> new.chain = <<>>  BY <1>5, <1>7
    <2>2. new.op \in {"flush", "go", "restore"} => new.target \in Docs
      BY <1>3, <1>6, <1>7, <1>8 DEF Fits
    <2>3. Flushes(new.chain) # {} => new.op = "flush"
      BY <1>3, <1>6, <1>7 DEF Fits
    <2>4. new.phase \notin {"saving", "upserting", "upserted"}  BY <1>5, <1>7
    <2>5. \A i, j \in Flushes(new.chain) : i = j  BY <1>3, <1>7 DEF AtMostOne
    <2> QED  BY <1>7, <2>1, <2>2, <2>3, <2>4, <2>5 DEF Fits
  <1> QED  BY <1>2, <1>5, <1>7, <1>9, <1>10

LEMMA ScheduledFits ==
    ASSUME NEW ed, Fits(ed)
    PROVE  LET new == Scheduled(ed) IN
           /\ Fits(new)
           /\ new.status = "saved" => ed.status = "saved" /\ ed.working = ed.saved
           /\ \A f \in {"working", "saved", "rev", "phase", "op", "next"} : new[f] = ed[f]
  <1>1. PICK new : new = Scheduled(ed)  OBVIOUS
  <1>2. ed \in Editors  BY DEF Fits
  <1>3. PICK status \in Statuses :
          status = IF ed.working # ed.saved /\ ed.status # "conflict" THEN "dirty" ELSE ed.status
    BY <1>2, FitFields DEF Statuses
  <1>4. new = [ed EXCEPT !.timer = TRUE, !.status = status]
    BY <1>1, <1>2, <1>3 DEF Scheduled, Editors
  <1>5. /\ new \in Editors /\ new.status = status
        /\ \A f \in {"working", "saved", "rev", "phase", "op", "next", "chain", "sent",
                     "target"} : new[f] = ed[f]
    BY <1>2, <1>4 DEF Editors
  <1>6. Fits(new)  BY <1>5 DEF Fits
  <1>7. status = "saved" => ed.status = "saved" /\ ed.working = ed.saved
    BY <1>3
  <1> QED  BY <1>1, <1>5, <1>6, <1>7

LEMMA EnqueuedFits ==
    ASSUME NEW ed, Fits(ed), NEW who \in {"autosave", "ensure"},
           who = "ensure" => ed.op = "flush" /\ Flushes(ed.chain) = {}
    PROVE  LET new == Enqueued(ed, who) IN
           /\ Fits(new)
           /\ \A f \in {"working", "saved", "rev", "op", "next", "status"} : new[f] = ed[f]
           /\ new.phase \in Requesting <=> ed.phase \in Requesting
           /\ new.phase = "saving" <=> ed.phase = "saving"
  <1>1. ed \in Editors /\ ed.chain \in Chains /\ AtMostOne(Flushes(ed.chain))
    BY DEF Fits, Editors, Chains, AtMostOne
  <1>2. PICK new, t, phase :
          /\ new = Enqueued(ed, who) /\ t = Append(ed.chain, who)
          /\ phase = IF ed.phase = "idle" THEN "top" ELSE ed.phase
    OBVIOUS
  <1>3. /\ t \in Chains /\ t # <<>> /\ AtMostOne(Flushes(t))
        /\ who = "autosave" => Flushes(t) = Flushes(ed.chain)
    BY <1>1, <1>2, AppendFlushes
  <1>4. new = [ed EXCEPT !.chain = t, !.phase = phase]
    BY <1>1, <1>2 DEF Enqueued, Editors
  <1>5. phase \in {"top", "saving", "upserting", "upserted"} /\ phase # "idle"
        /\ (phase \in Requesting => phase = ed.phase)
        /\ (ed.phase \in Requesting => phase = ed.phase)
    BY <1>1, <1>2 DEF Editors, Requesting
  <1>6. /\ new \in Editors /\ new.chain = t /\ new.phase = phase
        /\ \A f \in {"working", "saved", "rev", "op", "next", "status", "sent", "target"} :
              new[f] = ed[f]
    BY <1>1, <1>3, <1>4, <1>5 DEF Editors, Chains
  <1>7. Fits(new)
    <2>1. Flushes(new.chain) # {} => new.op = "flush"  BY <1>3, <1>6 DEF Fits
    <2>2. \A i, j \in Flushes(new.chain) : i = j  BY <1>3, <1>6 DEF AtMostOne
    <2> QED  BY <1>3, <1>5, <1>6, <2>1, <2>2 DEF Fits, Requesting
  <1> QED  BY <1>2, <1>5, <1>6, <1>7 DEF Requesting

(* Every request of the pass has succeeded.                                *)
LEMMA SettledFits ==
    ASSUME NEW ed, Fits(ed), ed.phase \in Requesting
    PROVE  LET new == Settled(ed) IN
           /\ Fits(new) /\ new.phase \in {"idle", "top"}
           /\ new.op = "restore" <=> ed.op = "restore"
           /\ new.working = ed.working /\ new.saved = ed.next /\ new.rev = ed.rev
           /\ new.status = "saved" => ed.working = ed.next
  <1>1. ed \in Editors /\ ed.next \in Copies /\ ed.phase # "idle"
    BY DEF Fits, Requesting
  <1>2. PICK kept : kept = [ed EXCEPT !.saved = ed.next]  OBVIOUS
  <1>3. /\ kept \in Editors /\ kept.saved = ed.next
        /\ \A f \in {"working", "rev", "status", "phase", "op", "chain", "next", "sent",
                     "target"} : kept[f] = ed[f]
    BY <1>1, <1>2 DEF Editors
  <1>4. Fits(kept)  BY <1>3 DEF Fits
  <1>5. CASE ed.working = ed.next
    <2>1. Settled(ed) = Finished(kept, "saved", TRUE)
      BY <1>1, <1>2, <1>5 DEF Settled, Editors
    <2>2. PICK new : new = Finished(kept, "saved", TRUE)  OBVIOUS
    <2>3. "saved" \in Statuses /\ kept.phase # "idle"  BY <1>1, <1>3 DEF Statuses
    <2>4. /\ Fits(new) /\ new.phase \in {"idle", "top"}
          /\ new.op = "restore" <=> kept.op = "restore"
          /\ new.working = kept.working /\ new.saved = kept.saved /\ new.rev = kept.rev
      <3>1. LET fin == Finished(kept, "saved", TRUE) IN
            /\ Fits(fin) /\ fin.phase \in {"idle", "top"}
            /\ fin.op = "restore" <=> kept.op = "restore"
            /\ fin.working = kept.working /\ fin.saved = kept.saved /\ fin.rev = kept.rev
        BY <1>4, <2>3, FinishedFits
      <3> QED  BY <2>2, <3>1
    <2> QED  BY <1>3, <1>5, <2>1, <2>2, <2>4
  <1>6. CASE ed.working # ed.next
    <2>1. PICK new : new = Settled(ed)  OBVIOUS
    <2>2. new = [kept EXCEPT !.status = "dirty", !.phase = "top", !.sent = None, !.next = None]
      BY <1>1, <1>2, <1>6, <2>1 DEF Settled, Editors
    <2>3. /\ new \in Editors /\ new.status = "dirty" /\ new.phase = "top"
          /\ \A f \in {"working", "saved", "rev", "op", "chain", "target"} : new[f] = kept[f]
      BY <1>3, <2>2 DEF Editors, Statuses
    <2>4. ed.chain # <<>>  BY <1>1 DEF Fits
    <2>5. Fits(new)  BY <1>3, <1>4, <2>3, <2>4 DEF Fits
    <2> QED  BY <1>3, <2>1, <2>3, <2>5
  <1> QED  BY <1>5, <1>6

----
(* Steps.                                                                  *)

(* The log has grown, or not.                                              *)
Grows == Len(log) <= Len(log)' /\ \A i \in 1..Len(log) : log'[i] = log[i]

LEMMA HeldStays ==
    ASSUME LogTypeOK, LogTypeOK', Grows, NEW d, NEW m \in Nat, NEW n \in Nat,
           m <= n, m <= Len(log), Held(d, m)
    PROVE  Held(d, n)'
  <1>1. PICK i \in 1..m : log[i] = d  BY DEF Held
  <1>2. i \in 1..n /\ log'[i] = d  BY <1>1 DEF Grows, LogTypeOK
  <1> QED  BY <1>2 DEF Held

LEMMA BackedStays ==
    ASSUME LogTypeOK, LogTypeOK', Grows, NEW ed, Fits(ed), Backed(ed)
    PROVE  Backed(ed)'
  <1>1. ed.rev \in Nat /\ ed.rev <= Len(log)  BY DEF Fits, Editors, Backed
  <1>2. ed.rev <= Len(log)'  BY <1>1 DEF Grows, LogTypeOK
  <1> QED  BY <1>1, <1>2, HeldStays DEF Backed

(* A session that a step does not touch.                                   *)
LEMMA SessionStays ==
    ASSUME WorkspaceInv, LogTypeOK', Grows, NEW d \in Sessions, editor'[d] = editor[d],
           \A kind \in Kinds : call'[<<d, kind>>] = call[<<d, kind>>]
    PROVE  (Fits(editor[d]) /\ Backed(editor[d]) /\ Faithful(d))'
  <1>1. PICK e : e = editor[d]  OBVIOUS
  <1>2. e = editor'[d] /\ Fits(e) /\ Backed(e) /\ Faithful(d) /\ LogTypeOK
    BY <1>1 DEF WorkspaceInv
  <1>3. Backed(e)'  BY <1>2, BackedStays
  <1>4. e.rev \in Nat /\ e.rev <= Len(log) /\ Len(log) \in Nat /\ Len(log)' \in Nat
    BY <1>2 DEF Fits, Editors, Backed, LogTypeOK
  <1>5. ASSUME NEW kind \in Kinds, NEW a \in Calls, Promises(e, kind, a)
        PROVE  Promises(e, kind, a)'
    BY <1>4, <1>5 DEF Promises, Grows, Waits, Calls, NotCalling
  <1>6. \A kind \in Kinds : call[<<d, kind>>] \in Calls
    BY <1>2, WorkspaceAssumption DEF LogTypeOK, Kinds
  <1>7. Faithful(d)'  BY <1>1, <1>2, <1>5, <1>6 DEF Faithful
  <1> QED  BY <1>2, <1>3, <1>7

LEMMA NonEmptyStays ==
    ASSUME LogTypeOK, LogTypeOK', Grows, log # <<>>
    PROVE  log' # <<>>
  <1>1. Len(log) >= 1  BY DEF LogTypeOK
  <1> QED  BY <1>1 DEF Grows, LogTypeOK

(* What a step of session s owes to the invariant.                         *)
LEMMA WorkspaceStep ==
    ASSUME WorkspaceInv, LogTypeOK', Grows, NEW s \in Sessions, NEW ed,
           editor' = [editor EXCEPT ![s] = ed],
           \A c \in Clients : c[1] # s => call'[c] = call[c],
           records' \in Records, budget' \in 0..MaxSurprises,
           Fits(ed), Backed(ed)',
           \A kind \in Kinds : Promises(ed, kind, call[<<s, kind>>])',
           \E kind \in Kinds : ~ (Waits(ed, kind) /\ Won(call'[<<s, kind>>]))
    PROVE  WorkspaceInv'
  <1>1. /\ editor \in [Sessions -> Editors] /\ LogTypeOK /\ log # <<>>
        /\ ed \in Editors
    BY DEF WorkspaceInv, Fits
  <1>2. editor' \in [Sessions -> Editors] /\ editor'[s] = ed
        /\ \A d \in Sessions : d # s => editor'[d] = editor[d]
    BY <1>1
  <1>3. log' # <<>>  BY <1>1, NonEmptyStays
  <1>4. Fits(editor'[s]) /\ Backed(ed)' /\ Faithful(s)'
    <2>1. \A kind \in Kinds : Promises(editor[s], kind, call[<<s, kind>>])'
      BY <1>2 DEF Promises
    <2> QED  BY <1>2, <2>1 DEF Faithful
  <1>5. ASSUME NEW d \in Sessions, d # s
        PROVE  (Fits(editor[d]) /\ Backed(editor[d]) /\ Faithful(d))'
    <2>1. \A kind \in Kinds : call'[<<d, kind>>] = call[<<d, kind>>]
      BY <1>5, WorkspaceAssumption DEF Kinds
    <2> QED  BY <1>2, <1>5, <2>1, SessionStays
  <1>6. ASSUME NEW d \in Sessions  PROVE (Fits(editor[d]) /\ Backed(editor[d]) /\ Faithful(d))'
    BY <1>2, <1>4, <1>5
  <1> QED  BY <1>2, <1>3, <1>6 DEF WorkspaceInv

LEMMA CallFacts ==
    ASSUME NEW a \in Calls
    PROVE  /\ a.at \in {"pending", "committed"} => a.base \in Nat /\ a.doc \in Docs
           /\ a.at = "done" => a.outcome \in Outcomes /\ a.rev \in Nat
           /\ a # NotCalling => a.at \in {"pending", "committed", "done"}
           /\ NotCalling \in Calls /\ NotCalling.at = "idle" /\ ~ Won(NotCalling)
  BY DEF Calls, NotCalling, Won

(* What holds of a session.                                                *)
LEMMA Known ==
    ASSUME WorkspaceInv, NEW s \in Sessions
    PROVE  /\ LogTypeOK /\ Len(log) \in Nat /\ Len(log) > 0
           /\ Fits(editor[s]) /\ Backed(editor[s]) /\ Faithful(s)
           /\ editor[s] \in Editors
           /\ editor[s].rev \in Nat \ {0} /\ editor[s].rev <= Len(log)
           /\ \A kind \in Kinds : <<s, kind>> \in Clients /\ call[<<s, kind>>] \in Calls
  <1>1. LogTypeOK /\ Fits(editor[s]) /\ Backed(editor[s]) /\ Faithful(s) /\ log # <<>>
    BY DEF WorkspaceInv
  <1>2. Len(log) \in Nat /\ Len(log) > 0  BY <1>1 DEF LogTypeOK
  <1>3. editor[s] \in Editors /\ editor[s].rev <= Len(log)  BY <1>1 DEF Fits, Backed
  <1>4. editor[s].rev \in Nat \ {0}  BY <1>3 DEF Editors
  <1>5. \A kind \in Kinds : <<s, kind>> \in Clients /\ call[<<s, kind>>] \in Calls
    BY <1>1, WorkspaceAssumption DEF LogTypeOK, Kinds
  <1> QED  BY <1>1, <1>2, <1>3, <1>4, <1>5

(* A turn of a page in which no request is made: the revision may move on  *)
(* only when no request that the page still waits for has won.             *)
LEMMA PageInv ==
    ASSUME WorkspaceInv, NEW s \in Sessions, NEW ed, Put(s, ed),
           UNCHANGED <<log, live>>, call' \in [Clients -> Calls],
           \A c \in Clients : c[1] # s => call'[c] = call[c],
           \A kind \in Kinds : call'[<<s, kind>>] \in {call[<<s, kind>>], NotCalling},
           records' \in Records, budget' \in 0..MaxSurprises,
           Fits(ed), Backed(ed), editor[s].rev <= ed.rev,
           \A kind \in Kinds : Waits(ed, kind) =>
              \/ call'[<<s, kind>>] = NotCalling
              \/ /\ Waits(editor[s], kind)
                 /\ ed.rev = editor[s].rev \/ ~ Won(call[<<s, kind>>])
    PROVE  WorkspaceInv'
  <1>1. LogTypeOK' /\ Grows /\ log' = log
    BY DEF WorkspaceInv, LogTypeOK, Grows
  <1>2. PICK old : old = editor[s]  OBVIOUS
  <1>3. old.rev \in Nat /\ ed.rev \in Nat /\ old.rev <= ed.rev
    BY <1>2, Known DEF Fits, Editors
  <1>4. Backed(ed)'  BY <1>1 DEF Backed, Held
  <1>5. ASSUME NEW kind \in Kinds  PROVE Promises(ed, kind, call[<<s, kind>>])'
    <2>1. PICK a, b : a = call[<<s, kind>>] /\ b = call'[<<s, kind>>]  OBVIOUS
    <2>2. a \in Calls /\ Promises(old, kind, a)  BY <1>2, <2>1, Known DEF Faithful
    <2>3. b = a \/ b = NotCalling  BY <2>1
    <2>4. CASE b = NotCalling
      BY <2>1, <2>4 DEF Promises, NotCalling
    <2>5. CASE b = a /\ b # NotCalling
      <3>1. Waits(ed, kind) => Waits(old, kind) /\ (ed.rev = old.rev \/ ~ Won(a))
        BY <1>2, <2>1, <2>5
      <3>2. Promises(ed, kind, a)
        BY <1>3, <2>2, <3>1, CallFacts DEF Promises, Won
      <3> QED  BY <1>1, <2>1, <2>5, <3>2 DEF Promises
    <2> QED  BY <2>3, <2>4, <2>5
  <1>6. \E kind \in Kinds : ~ (Waits(ed, kind) /\ Won(call'[<<s, kind>>]))
    <2>1. PICK kind \in Kinds : ~ (Waits(old, kind) /\ Won(call[<<s, kind>>]))
      BY <1>2, Known DEF Faithful
    <2>2. CASE call'[<<s, kind>>] = NotCalling
      BY <2>2 DEF Won, NotCalling
    <2>3. CASE call'[<<s, kind>>] # NotCalling
      BY <1>2, <2>1, <2>3
    <2> QED  BY <2>2, <2>3
  <1>7. editor' = [editor EXCEPT ![s] = ed]  BY DEF Put
  <1> QED  BY <1>1, <1>4, <1>5, <1>6, <1>7, WorkspaceStep

(* A turn without any call.                                                *)
LEMMA TurnInv ==
    ASSUME WorkspaceInv, NEW s \in Sessions, NEW ed, Put(s, ed),
           UNCHANGED <<log, live, call>>,
           records' \in Records, budget' \in 0..MaxSurprises,
           Fits(ed), Backed(ed), ed.rev = editor[s].rev,
           \A kind \in Kinds : Waits(ed, kind) => Waits(editor[s], kind)
    PROVE  WorkspaceInv'
  <1>1. /\ call' = call /\ call' \in [Clients -> Calls]
        /\ editor[s].rev <= ed.rev
    BY Known DEF WorkspaceInv, LogTypeOK
  <1>2. UNCHANGED <<log, live>>  OBVIOUS
  <1> QED  BY <1>1, <1>2, PageInv

LEMMA Spent ==
    ASSUME WorkspaceInv, Spend \/ UNCHANGED budget
    PROVE  budget' \in 0..MaxSurprises
  BY WorkspaceAssumption DEF WorkspaceInv, Spend

LEMMA EditInv ==
    ASSUME WorkspaceInv, NEW s \in Sessions, edit(s)
    PROVE  WorkspaceInv'
  <1>1. PICK old : old = editor[s]  OBVIOUS
  <1>2. PICK w \in Copies : Put(s, Scheduled([old EXCEPT !.working = w]))
    BY <1>1 DEF edit
  <1>3. PICK typed : typed = [old EXCEPT !.working = w]  OBVIOUS
  <1>4. /\ Fits(old) /\ Backed(old) /\ old \in Editors
    BY <1>1, Known
  <1>5. /\ typed \in Editors /\ typed.working = w
        /\ \A f \in {"saved", "rev", "status", "phase", "op", "chain", "next", "sent",
                     "target"} : typed[f] = old[f]
    BY <1>3, <1>4 DEF Editors
  <1>6. Fits(typed)  BY <1>4, <1>5 DEF Fits
  <1>7. PICK new : new = Scheduled(typed)  OBVIOUS
  <1>8. /\ Fits(new)
        /\ new.status = "saved" => typed.status = "saved" /\ typed.working = typed.saved
        /\ \A f \in {"working", "saved", "rev", "phase", "op", "next"} : new[f] = typed[f]
    BY <1>6, <1>7, ScheduledFits
  <1>9. Backed(new)  BY <1>4, <1>5, <1>8 DEF Backed
  <1>10. new.rev = old.rev /\ \A kind \in Kinds : Waits(new, kind) => Waits(old, kind)
    BY <1>5, <1>8 DEF Waits
  <1>11. Put(s, new)  BY <1>2, <1>3, <1>7
  <1>12. /\ UNCHANGED <<log, live, call>> /\ records' \in Records
         /\ budget' \in 0..MaxSurprises
    BY Spent DEF edit, WorkspaceInv
  <1> QED  BY <1>1, <1>8, <1>9, <1>10, <1>11, <1>12, TurnInv

LEMMA DebounceInv ==
    ASSUME WorkspaceInv, NEW s \in Sessions, debounceFires(s)
    PROVE  WorkspaceInv'
  <1>1. PICK old, fired : old = editor[s] /\ fired = [old EXCEPT !.timer = FALSE]  OBVIOUS
  <1>2. Fits(old) /\ Backed(old) /\ old \in Editors  BY <1>1, Known
  <1>3. /\ fired \in Editors
        /\ \A f \in {"working", "saved", "rev", "status", "phase", "op", "chain", "next",
                     "sent", "target"} : fired[f] = old[f]
    BY <1>1, <1>2 DEF Editors
  <1>4. Fits(fired)  BY <1>2, <1>3 DEF Fits
  <1>5. PICK new : new = Enqueued(fired, "autosave")  OBVIOUS
  <1>6. /\ Fits(new)
        /\ \A f \in {"working", "saved", "rev", "op", "next", "status"} : new[f] = fired[f]
        /\ new.phase \in Requesting <=> fired.phase \in Requesting
        /\ new.phase = "saving" <=> fired.phase = "saving"
    <2>1. LET put == Enqueued(fired, "autosave") IN
          /\ Fits(put)
          /\ \A f \in {"working", "saved", "rev", "op", "next", "status"} :
                put[f] = fired[f]
          /\ put.phase \in Requesting <=> fired.phase \in Requesting
          /\ put.phase = "saving" <=> fired.phase = "saving"
      BY <1>4, EnqueuedFits
    <2> QED  BY <1>5, <2>1
  <1>7. Backed(new)  BY <1>2, <1>3, <1>6 DEF Backed, Requesting
  <1>8. new.rev = old.rev /\ \A kind \in Kinds : Waits(new, kind) => Waits(old, kind)
    BY <1>3, <1>6 DEF Waits
  <1>9. /\ Put(s, new) /\ UNCHANGED <<log, live, call>> /\ records' \in Records
        /\ budget' \in 0..MaxSurprises
    BY <1>1, <1>5 DEF debounceFires, WorkspaceInv
  <1> QED  BY <1>1, <1>6, <1>7, <1>8, <1>9, TurnInv

LEMMA HandleRestoreInv ==
    ASSUME WorkspaceInv, NEW s \in Sessions, handleRestore(s)
    PROVE  WorkspaceInv'
  <1>1. PICK old : old = editor[s]  OBVIOUS
  <1>2. Fits(old) /\ Backed(old) /\ old \in Editors /\ LogTypeOK  BY <1>1, Known
  <1>3. PICK i \in 1..Len(log) :
          Put(s, Enqueued([old EXCEPT !.timer = FALSE, !.op = "flush", !.target = log[i]],
                          "ensure"))
    BY <1>1 DEF handleRestore
  <1>4. PICK d \in Docs : d = log[i]  BY <1>2 DEF LogTypeOK
  <1>5. PICK asked : asked = [old EXCEPT !.timer = FALSE, !.op = "flush", !.target = d]
    OBVIOUS
  <1>6. /\ asked \in Editors /\ asked.op = "flush" /\ asked.target = d
        /\ \A f \in {"working", "saved", "rev", "status", "phase", "chain", "next", "sent"} :
              asked[f] = old[f]
    BY <1>2, <1>5 DEF Editors
  <1>7. Flushes(asked.chain) = {}
    <2>1. old.op = None  BY <1>1 DEF handleRestore
    <2>2. old.op # "flush"  BY <2>1, WorkspaceAssumption
    <2> QED  BY <1>2, <1>6, <2>2 DEF Fits
  <1>8. Fits(asked)  BY <1>2, <1>6, <1>7 DEF Fits
  <1>9. PICK new : new = Enqueued(asked, "ensure")  OBVIOUS
  <1>10. /\ Fits(new)
         /\ \A f \in {"working", "saved", "rev", "op", "next", "status"} : new[f] = asked[f]
         /\ new.phase \in Requesting <=> asked.phase \in Requesting
         /\ new.phase = "saving" <=> asked.phase = "saving"
    <2>1. LET put == Enqueued(asked, "ensure") IN
          /\ Fits(put)
          /\ \A f \in {"working", "saved", "rev", "op", "next", "status"} :
                put[f] = asked[f]
          /\ put.phase \in Requesting <=> asked.phase \in Requesting
          /\ put.phase = "saving" <=> asked.phase = "saving"
      BY <1>6, <1>7, <1>8, EnqueuedFits
    <2> QED  BY <1>9, <2>1
  <1>11. Backed(new)  BY <1>2, <1>6, <1>10 DEF Backed, Requesting
  <1>12. new.rev = old.rev /\ \A kind \in Kinds : Waits(new, kind) => Waits(old, kind)
    BY <1>6, <1>10 DEF Waits
  <1>13. Put(s, new)  BY <1>3, <1>4, <1>5, <1>9
  <1>14. /\ UNCHANGED <<log, live, call>> /\ records' \in Records
         /\ budget' \in 0..MaxSurprises
    BY Spent DEF handleRestore, WorkspaceInv
  <1> QED  BY <1>1, <1>10, <1>11, <1>12, <1>13, <1>14, TurnInv

(* A page makes a request against the revision it has.                     *)
LEMMA BeginInv ==
    ASSUME WorkspaceInv, NEW s \in Sessions, NEW kind \in Kinds, NEW d \in Docs, NEW ed,
           Put(s, ed), Begin(<<s, kind>>, editor[s].rev, d),
           records' \in Records, budget' \in 0..MaxSurprises,
           Fits(ed), Backed(ed), ed.rev = editor[s].rev,
           \A other \in Kinds \ {kind} : Waits(ed, other) => Waits(editor[s], other)
    PROVE  WorkspaceInv'
  <1>1. PICK old, c, a : /\ old = editor[s] /\ c = <<s, kind>>
                         /\ a = [at |-> "pending", base |-> old.rev, doc |-> d]
    OBVIOUS
  <1>2. /\ LogTypeOK /\ Faithful(s) /\ c \in Clients /\ old.rev \in Nat
    BY <1>1, Known
  <1>3. a \in Calls /\ a.at = "pending" /\ a.base = old.rev /\ ~ Won(a)
    BY <1>1, <1>2 DEF Calls, Won
  <1>4. call' = [call EXCEPT ![c] = a] /\ UNCHANGED <<log, live>>
    BY <1>1 DEF Begin
  <1>5. LogTypeOK' /\ Grows /\ log' = log
    BY <1>2, <1>3, <1>4 DEF LogTypeOK, Grows
  <1>6. call'[c] = a /\ \A e \in Clients : e # c => call'[e] = call[e]
    BY <1>2, <1>4 DEF LogTypeOK
  <1>7. Backed(ed)'  BY <1>5 DEF Backed, Held
  <1>8. Promises(ed, kind, a)'  BY <1>1, <1>2, <1>3 DEF Promises
  <1>9. ASSUME NEW other \in Kinds, other # kind
        PROVE  Promises(ed, other, call[<<s, other>>])'
    <2>1. PICK b : b = call[<<s, other>>]  OBVIOUS
    <2>2. <<s, other>> \in Clients /\ <<s, other>> # c  BY <1>1, <1>9, Known
    <2>3. b = call'[<<s, other>>] /\ Promises(old, other, b)
      BY <1>1, <1>2, <1>6, <2>1, <2>2 DEF Faithful
    <2>4. Waits(ed, other) => Waits(old, other)  BY <1>1, <1>9
    <2>5. Promises(ed, other, b)  BY <1>1, <2>3, <2>4 DEF Promises
    <2> QED  BY <1>5, <2>3, <2>5 DEF Promises
  <1>10. \A k \in Kinds : Promises(ed, k, call[<<s, k>>])'
    <2>1. Promises(ed, kind, call[<<s, kind>>])'
      BY <1>1, <1>6, <1>8 DEF Promises
    <2> QED  BY <1>9, <2>1
  <1>11. \E k \in Kinds : ~ (Waits(ed, k) /\ Won(call'[<<s, k>>]))
    BY <1>1, <1>3, <1>6
  <1>12. \A e \in Clients : e[1] # s => call'[e] = call[e]  BY <1>1, <1>6
  <1>13. editor' = [editor EXCEPT ![s] = ed]  BY DEF Put
  <1> QED  BY <1>5, <1>7, <1>10, <1>11, <1>12, <1>13, WorkspaceStep

LEMMA SaveLoopInv ==
    ASSUME WorkspaceInv, NEW s \in Sessions, saveLoop(s)
    PROVE  WorkspaceInv'
  <1>1. PICK old, c : old = editor[s] /\ c = <<s, "save">>  OBVIOUS
  <1>2. Fits(old) /\ Backed(old) /\ Faithful(s) /\ old \in Editors /\ LogTypeOK
        /\ old.rev <= Len(log)
    BY <1>1, Known
  <1>3. old.phase = "top" /\ records' = records  BY <1>1 DEF saveLoop
  <1>4. PICK begun : begun = [old EXCEPT !.status = "saving", !.sent = old.working,
                                         !.next = old.saved]
    OBVIOUS
  <1>5. /\ old.working \in Copies /\ old.saved \in Copies
        /\ "conflict" \in Statuses /\ "saved" \in Statuses /\ "saving" \in Statuses
    BY <1>2, FitFields DEF Statuses
  <1>6. \/ \E status \in {"conflict", "saved"}, ok \in BOOLEAN :
             /\ status = "saved" => old.working = old.saved
             /\ Put(s, Finished(old, status, ok))
             /\ UNCHANGED <<log, live, call, budget>>
        \/ /\ call[c] = NotCalling /\ Begin(c, old.rev, Normalized[old.working.doc])
           /\ Put(s, [begun EXCEPT !.phase = "saving"])
           /\ Spend \/ UNCHANGED budget
        \/ /\ Put(s, [begun EXCEPT !.phase = "upserting"])
           /\ UNCHANGED <<log, live, call, budget>>
    BY <1>1, <1>4 DEF saveLoop
  <1>7. CASE \E status \in {"conflict", "saved"}, ok \in BOOLEAN :
               /\ status = "saved" => old.working = old.saved
               /\ Put(s, Finished(old, status, ok))
               /\ UNCHANGED <<log, live, call, budget>>
    <2>1. PICK status \in {"conflict", "saved"}, ok \in BOOLEAN :
            /\ status = "saved" => old.working = old.saved
            /\ Put(s, Finished(old, status, ok))
            /\ UNCHANGED <<log, live, call, budget>>
      BY <1>7
    <2>2. LET new == Finished(old, status, ok) IN
          /\ Fits(new) /\ new.status = status
          /\ new.phase \in {"idle", "top"}
          /\ new.op = "restore" <=> old.op = "restore"
          /\ new.working = old.working /\ new.saved = old.saved /\ new.rev = old.rev
      BY <1>2, <1>3, <1>5, FinishedFits
    <2>3. PICK new : new = Finished(old, status, ok)  OBVIOUS
    <2>4. /\ Backed(new) /\ new.rev = old.rev
          /\ \A kind \in Kinds : Waits(new, kind) => Waits(old, kind)
      BY <1>2, <2>1, <2>2, <2>3 DEF Backed, Waits
    <2>5. Put(s, new) /\ Fits(new)  BY <2>1, <2>2, <2>3
    <2>6. budget' \in 0..MaxSurprises /\ records' \in Records
      BY <1>3, <2>1 DEF WorkspaceInv
    <2> QED  BY <1>1, <2>1, <2>4, <2>5, <2>6, TurnInv
  <1>8. ASSUME NEW phase \in {"saving", "upserting"}, NEW new,
               new = [begun EXCEPT !.phase = phase]
        PROVE  /\ Fits(new) /\ Backed(new) /\ new.rev = old.rev
               /\ new.phase = phase /\ new.op = old.op
    <2>1. begun \in Editors  BY <1>2, <1>4, <1>5 DEF Editors
    <2>2. /\ new \in Editors /\ new.phase = phase /\ new.status = "saving"
          /\ new.sent = old.working /\ new.next = old.saved
          /\ \A f \in {"working", "saved", "rev", "op", "chain", "target"} : new[f] = old[f]
      BY <1>2, <1>4, <1>5, <1>8, <2>1 DEF Editors
    <2>3. old.chain # <<>>  BY <1>2, <1>3 DEF Fits
    <2>4. Fits(new)  BY <1>2, <1>5, <2>2, <2>3 DEF Fits
    <2>5. Backed(new)  BY <1>2, <2>2 DEF Backed
    <2> QED  BY <2>2, <2>4, <2>5
  <1>9. CASE /\ call[c] = NotCalling /\ Begin(c, old.rev, Normalized[old.working.doc])
             /\ Put(s, [begun EXCEPT !.phase = "saving"])
             /\ Spend \/ UNCHANGED budget
    <2>1. PICK new : new = [begun EXCEPT !.phase = "saving"]  OBVIOUS
    <2>2. /\ Fits(new) /\ Backed(new) /\ new.rev = old.rev
          /\ new.phase = "saving" /\ new.op = old.op
      BY <1>8, <2>1
    <2>3. PICK d \in Docs : d = Normalized[old.working.doc]
      BY <1>5, WorkspaceAssumption DEF Copies
    <2>4. Put(s, new) /\ Begin(c, old.rev, d)  BY <1>9, <2>1, <2>3
    <2>5. budget' \in 0..MaxSurprises /\ records' \in Records
      BY <1>3, <1>9, Spent DEF WorkspaceInv
    <2>6. "save" \in Kinds /\ Begin(<<s, "save">>, editor[s].rev, d) /\ new.rev = editor[s].rev
      BY <1>1, <2>2, <2>4 DEF Kinds
    <2>7. \A other \in Kinds \ {"save"} : Waits(new, other) => Waits(editor[s], other)
      BY <1>1, <2>2 DEF Waits
    <2> QED  BY <2>2, <2>4, <2>5, <2>6, <2>7, BeginInv
  <1>10. CASE /\ Put(s, [begun EXCEPT !.phase = "upserting"])
              /\ UNCHANGED <<log, live, call, budget>>
    <2>1. PICK new : new = [begun EXCEPT !.phase = "upserting"]  OBVIOUS
    <2>2. /\ Fits(new) /\ Backed(new) /\ new.rev = old.rev
          /\ new.phase = "upserting" /\ new.op = old.op
      BY <1>8, <2>1
    <2>3. \A kind \in Kinds : Waits(new, kind) => Waits(old, kind)
      BY <2>2 DEF Waits
    <2>4. budget' \in 0..MaxSurprises /\ records' \in Records /\ Put(s, new)
      BY <1>3, <1>10, <2>1 DEF WorkspaceInv
    <2> QED  BY <1>1, <1>10, <2>2, <2>3, <2>4, TurnInv
  <1> QED  BY <1>6, <1>7, <1>9, <1>10

LEMMA UpsertInv ==
    ASSUME WorkspaceInv, NEW s \in Sessions, upsertRecords(s) \/ upsertAnswered(s)
    PROVE  WorkspaceInv'
  <1>1. PICK old : old = editor[s]  OBVIOUS
  <1>2. Fits(old) /\ Backed(old) /\ old \in Editors  BY <1>1, Known
  <1>3. UNCHANGED <<log, live, call>> /\ budget' \in 0..MaxSurprises
    BY DEF upsertRecords, upsertAnswered, WorkspaceInv
  <1>4. CASE upsertRecords(s)
    <2>1. old.phase = "upserting" /\ records' = old.sent.recs
          /\ Put(s, [old EXCEPT !.phase = "upserted"])
      BY <1>1, <1>4 DEF upsertRecords
    <2>2. PICK new : new = [old EXCEPT !.phase = "upserted"]  OBVIOUS
    <2>3. /\ new \in Editors /\ new.phase = "upserted"
          /\ \A f \in {"working", "saved", "rev", "status", "op", "chain", "next", "sent",
                       "target"} : new[f] = old[f]
      BY <1>2, <2>2 DEF Editors
    <2>4. Fits(new)  BY <1>2, <2>1, <2>3 DEF Fits
    <2>5. Backed(new)  BY <1>2, <2>1, <2>3 DEF Backed
    <2>6. new.rev = old.rev /\ \A kind \in Kinds : Waits(new, kind) => Waits(old, kind)
      BY <2>3 DEF Waits
    <2>7. records' \in Records  BY <1>2, <2>1 DEF Fits, Copies
    <2>8. Put(s, new)  BY <2>1, <2>2
    <2> QED  BY <1>1, <1>3, <2>4, <2>5, <2>6, <2>7, <2>8, TurnInv
  <1>5. CASE upsertAnswered(s)
    <2>1. old.phase = "upserted" /\ records' = records
          /\ Put(s, Settled([old EXCEPT !.next.recs = old.sent.recs]))
      BY <1>1, <1>5 DEF upsertAnswered
    <2>2. old.sent \in Copies /\ old.next \in Copies  BY <1>2, <2>1 DEF Fits
    <2>3. PICK copy : copy = [old.next EXCEPT !.recs = old.sent.recs]  OBVIOUS
    <2>4. copy \in Copies /\ copy.doc = old.next.doc  BY <2>2, <2>3 DEF Copies
    <2>5. PICK answered : answered = [old EXCEPT !.next = copy]  OBVIOUS
    <2>6. answered = [old EXCEPT !.next.recs = old.sent.recs]
      BY <1>2, <2>3, <2>5 DEF Editors
    <2>7. /\ answered \in Editors /\ answered.next = copy
          /\ \A f \in {"working", "saved", "rev", "status", "phase", "op", "chain", "sent",
                       "target"} : answered[f] = old[f]
      BY <1>2, <2>4, <2>5 DEF Editors
    <2>8. Fits(answered) /\ answered.phase \in Requesting
      BY <1>2, <2>1, <2>4, <2>7 DEF Fits, Requesting
    <2>9. PICK new : new = Settled(answered)  OBVIOUS
    <2>10. LET put == Settled(answered) IN
           /\ Fits(put) /\ put.phase \in {"idle", "top"}
           /\ put.op = "restore" <=> answered.op = "restore"
           /\ put.working = answered.working /\ put.saved = answered.next
           /\ put.rev = answered.rev
           /\ put.status = "saved" => answered.working = answered.next
      BY <2>8, SettledFits
    <2>11. Held(copy.doc, old.rev)  BY <1>2, <2>1, <2>4 DEF Backed
    <2>12. Backed(new)  BY <1>2, <2>7, <2>9, <2>10, <2>11 DEF Backed
    <2>13. new.rev = old.rev /\ \A kind \in Kinds : Waits(new, kind) => Waits(old, kind)
      BY <2>7, <2>9, <2>10 DEF Waits
    <2>14. Put(s, new) /\ Fits(new) /\ records' \in Records
      BY <2>1, <2>6, <2>9, <2>10 DEF WorkspaceInv
    <2> QED  BY <1>1, <1>3, <2>12, <2>13, <2>14, TurnInv
  <1> QED  BY <1>4, <1>5

(* A pass of the loop fails: the upsert, the connection or what follows    *)
(* an answer.                                                              *)
LEMMA FinishedInv ==
    ASSUME WorkspaceInv, NEW s \in Sessions, NEW status \in {"error", "conflict"},
           editor[s].phase # "idle", Put(s, Finished(editor[s], status, FALSE)),
           UNCHANGED <<log, live>>, call' \in [Clients -> Calls],
           \A c \in Clients : c[1] # s => call'[c] = call[c],
           \A kind \in Kinds : call'[<<s, kind>>] \in {call[<<s, kind>>], NotCalling},
           records' \in Records, budget' \in 0..MaxSurprises
    PROVE  WorkspaceInv'
  <1>1. PICK old, new : old = editor[s] /\ new = Finished(old, status, FALSE)  OBVIOUS
  <1>2. Fits(old) /\ Backed(old) /\ old.rev \in Nat /\ old.phase # "idle"
    BY <1>1, Known
  <1>3. status \in Statuses /\ FALSE \in BOOLEAN  BY DEF Statuses
  <1>4. LET put == Finished(old, status, FALSE) IN
        /\ Fits(put) /\ put.status = status
        /\ put.phase \in {"idle", "top"}
        /\ put.op = "restore" <=> old.op = "restore"
        /\ put.working = old.working /\ put.saved = old.saved /\ put.rev = old.rev
    BY <1>2, <1>3, FinishedFits
  <1>5. /\ Backed(new) /\ new.rev = old.rev /\ old.rev <= new.rev
        /\ \A kind \in Kinds : Waits(new, kind) => Waits(old, kind)
    <2>1. /\ new.status # "saved" /\ new.phase \in {"idle", "top"}
          /\ new.op = "restore" <=> old.op = "restore"
      BY <1>1, <1>4
    <2>2. new.saved = old.saved /\ new.rev = old.rev  BY <1>1, <1>4
    <2>3. Backed(new)  BY <1>2, <2>1, <2>2 DEF Backed
    <2>4. \A kind \in Kinds : Waits(new, kind) => Waits(old, kind)
      BY <2>1 DEF Waits
    <2> QED  BY <1>2, <2>2, <2>3, <2>4
  <1>6. Put(s, new) /\ Fits(new)  BY <1>1, <1>4
  <1> QED  BY <1>1, <1>5, <1>6, PageInv

LEMMA UpsertFailsInv ==
    ASSUME WorkspaceInv, NEW s \in Sessions, upsertFails(s)
    PROVE  WorkspaceInv'
  <1>1. /\ Put(s, Finished(editor[s], "error", FALSE)) /\ editor[s].phase # "idle"
        /\ UNCHANGED <<log, live>> /\ call' = call
        /\ records' \in Records /\ budget' \in 0..MaxSurprises
    BY Spent DEF upsertFails, WorkspaceInv
  <1>2. call' \in [Clients -> Calls]  BY <1>1 DEF WorkspaceInv, LogTypeOK
  <1> QED  BY <1>1, <1>2, FinishedInv

(* A request is over for the caller.                                       *)
LEMMA ReturnFacts ==
    ASSUME WorkspaceInv, NEW s \in Sessions, NEW kind \in Kinds, Return(<<s, kind>>)
    PROVE  /\ UNCHANGED <<log, live>> /\ call[<<s, kind>>].at = "done"
           /\ call' \in [Clients -> Calls] /\ call'[<<s, kind>>] = NotCalling
           /\ \A c \in Clients : c[1] # s => call'[c] = call[c]
           /\ \A k \in Kinds : call'[<<s, k>>] \in {call[<<s, k>>], NotCalling}
  <1>1. PICK c : c = <<s, kind>>  OBVIOUS
  <1>2. c \in Clients /\ c[1] = s /\ call \in [Clients -> Calls]
        /\ \A k \in Kinds : <<s, k>> \in Clients
    BY <1>1, Known DEF WorkspaceInv, LogTypeOK
  <1>3. NotCalling \in Calls  BY DEF Calls
  <1>4. call' = [call EXCEPT ![c] = NotCalling] /\ UNCHANGED <<log, live>>
        /\ call[c].at = "done"
    BY <1>1 DEF Return
  <1>5. /\ call' \in [Clients -> Calls] /\ call'[c] = NotCalling
        /\ \A e \in Clients : e # c => call'[e] = call[e]
    BY <1>2, <1>3, <1>4
  <1> QED  BY <1>1, <1>2, <1>4, <1>5

(* The answer to a request that has won.                                   *)
LEMMA WonAnswer ==
    ASSUME WorkspaceInv, NEW s \in Sessions, NEW kind \in Kinds,
           Waits(editor[s], kind), call[<<s, kind>>].at = "done",
           call[<<s, kind>>].outcome = "ok"
    PROVE  /\ call[<<s, kind>>].rev \in Nat \ {0}
           /\ editor[s].rev < call[<<s, kind>>].rev /\ call[<<s, kind>>].rev <= Len(log)
           /\ log[call[<<s, kind>>].rev] \in Docs
           /\ \A other \in Kinds : other # kind /\ Waits(editor[s], other)
                => ~ Won(call[<<s, other>>])
  <1>1. PICK a, old : a = call[<<s, kind>>] /\ old = editor[s]  OBVIOUS
  <1>2. /\ a \in Calls /\ Promises(old, kind, a) /\ old.rev \in Nat /\ LogTypeOK
        /\ \E k \in Kinds : ~ (Waits(old, k) /\ Won(call[<<s, k>>]))
    BY <1>1, Known DEF Faithful
  <1>3. a.rev \in Nat  BY <1>1, <1>2, CallFacts
  <1>4. old.rev < a.rev /\ a.rev <= Len(log)  BY <1>1, <1>2 DEF Promises
  <1>5. a.rev \in Nat \ {0}  BY <1>2, <1>3, <1>4
  <1>6. log[a.rev] \in Docs  BY <1>2, <1>4, <1>5 DEF LogTypeOK
  <1>7. Won(a)  BY <1>1 DEF Won
  <1>8. \A other \in Kinds : other # kind /\ Waits(old, other) => ~ Won(call[<<s, other>>])
    BY <1>1, <1>2, <1>7 DEF Kinds
  <1> QED  BY <1>1, <1>4, <1>5, <1>6, <1>8

LEMMA SaveAnsweredInv ==
    ASSUME WorkspaceInv, NEW s \in Sessions, saveAnswered(s)
    PROVE  WorkspaceInv'
  <1>1. PICK old, a : old = editor[s] /\ a = call[<<s, "save">>]  OBVIOUS
  <1>2. Fits(old) /\ Backed(old) /\ old \in Editors /\ old.rev \in Nat /\ old.rev <= Len(log)
    BY <1>1, Known
  <1>3. /\ old.phase = "saving" /\ Return(<<s, "save">>) /\ records' \in Records
        /\ Spend \/ UNCHANGED budget
    BY <1>1 DEF saveAnswered, WorkspaceInv
  <1>4. budget' \in 0..MaxSurprises  BY <1>3, Spent
  <1>5. /\ UNCHANGED <<log, live>> /\ a.at = "done"
        /\ call' \in [Clients -> Calls] /\ call'[<<s, "save">>] = NotCalling
        /\ \A c \in Clients : c[1] # s => call'[c] = call[c]
        /\ \A k \in Kinds : call'[<<s, k>>] \in {call[<<s, k>>], NotCalling}
    BY <1>1, <1>3, ReturnFacts DEF Kinds
  <1>6. PICK adopted : adopted = [old EXCEPT !.rev = a.rev, !.next.doc = log[a.rev]]
    OBVIOUS
  <1>7. \/ /\ a.outcome = "ok"
           /\ \/ Put(s, [adopted EXCEPT !.phase = "upserting"])
              \/ Put(s, Settled(adopted))
              \/ Put(s, Finished(adopted, "error", FALSE))
        \/ \E status \in {"error", "conflict"} : Put(s, Finished(old, status, FALSE))
    BY <1>1, <1>6 DEF saveAnswered
  <1>8. CASE \E status \in {"error", "conflict"} : Put(s, Finished(old, status, FALSE))
    <2>1. PICK status \in {"error", "conflict"} : Put(s, Finished(editor[s], status, FALSE))
      BY <1>1, <1>8
    <2>2. editor[s].phase # "idle"  BY <1>1, <1>3
    <2> QED  BY <1>3, <1>4, <1>5, <2>1, <2>2, FinishedInv
  <1>9. CASE a.outcome = "ok"
    <2>1. Waits(old, "save") /\ "save" \in Kinds  BY <1>3 DEF Waits, Kinds
    <2>2. /\ a.rev \in Nat \ {0} /\ old.rev < a.rev /\ a.rev <= Len(log)
          /\ log[a.rev] \in Docs
          /\ \A other \in Kinds : other # "save" /\ Waits(old, other)
               => ~ Won(call[<<s, other>>])
      BY <1>1, <1>5, <1>9, <2>1, WonAnswer
    <2>3. PICK d \in Docs : d = log[a.rev]  BY <2>2
    <2>4. old.sent \in Copies /\ old.next \in Copies  BY <1>2, <1>3 DEF Fits
    <2>5. PICK copy : copy = [old.next EXCEPT !.doc = d]  OBVIOUS
    <2>6. copy \in Copies /\ copy.doc = d  BY <2>4, <2>5 DEF Copies
    <2>7. adopted = [old EXCEPT !.rev = a.rev, !.next = copy]
      BY <1>2, <1>6, <2>3, <2>5 DEF Editors
    <2>8. /\ adopted \in Editors /\ adopted.rev = a.rev /\ adopted.next = copy
          /\ \A f \in {"working", "saved", "status", "phase", "op", "chain", "sent",
                       "target"} : adopted[f] = old[f]
      BY <1>2, <2>2, <2>6, <2>7 DEF Editors
    <2>9. Fits(adopted) /\ adopted.phase \in Requesting /\ adopted.phase # "idle"
      BY <1>2, <1>3, <2>6, <2>8 DEF Fits, Requesting
    <2>10. Held(copy.doc, a.rev)  BY <2>2, <2>3, <2>6 DEF Held
    <2>11. \A x : Held(x, old.rev) => Held(x, a.rev)
      BY <1>2, <2>2 DEF Held
    <2>12. Backed(adopted)
      BY <1>2, <1>3, <2>2, <2>6, <2>8, <2>10, <2>11 DEF Backed
    <2>13. ASSUME NEW new, Fits(new), Backed(new), new.rev = a.rev, Put(s, new),
                  new.op = "restore" <=> old.op = "restore"
           PROVE  WorkspaceInv'
      <3>1. editor[s].rev <= new.rev  BY <1>1, <1>2, <2>2, <2>13
      <3>2. ASSUME NEW kind \in Kinds, Waits(new, kind)
            PROVE  \/ call'[<<s, kind>>] = NotCalling
                   \/ /\ Waits(editor[s], kind)
                      /\ new.rev = editor[s].rev \/ ~ Won(call[<<s, kind>>])
        <4>1. CASE kind = "save"  BY <1>5, <4>1
        <4>2. CASE kind # "save"
          <5>1. Waits(old, kind)  BY <2>13, <3>2, <4>2 DEF Waits
          <5> QED  BY <1>1, <2>2, <4>2, <5>1
        <4> QED  BY <4>1, <4>2
      <3> QED  BY <1>3, <1>4, <1>5, <2>13, <3>1, <3>2, PageInv
    <2>14. CASE Put(s, [adopted EXCEPT !.phase = "upserting"])
      <3>1. PICK new : new = [adopted EXCEPT !.phase = "upserting"]  OBVIOUS
      <3>2. /\ new \in Editors /\ new.phase = "upserting"
            /\ \A f \in {"working", "saved", "rev", "status", "op", "chain", "next", "sent",
                         "target"} : new[f] = adopted[f]
        BY <2>8, <3>1 DEF Editors
      <3>3. Fits(new)  BY <2>9, <3>2 DEF Fits, Requesting
      <3>4. Backed(new)  BY <2>9, <2>12, <3>2 DEF Backed, Requesting
      <3> QED  BY <2>8, <2>13, <2>14, <3>1, <3>2, <3>3, <3>4
    <2>15. CASE Put(s, Settled(adopted))
      <3>1. PICK new : new = Settled(adopted)  OBVIOUS
      <3>2. LET put == Settled(adopted) IN
            /\ Fits(put) /\ put.phase \in {"idle", "top"}
            /\ put.op = "restore" <=> adopted.op = "restore"
            /\ put.working = adopted.working /\ put.saved = adopted.next
            /\ put.rev = adopted.rev
            /\ put.status = "saved" => adopted.working = adopted.next
        BY <2>9, SettledFits
      <3>3. Backed(new)
        BY <2>2, <2>8, <2>10, <3>1, <3>2 DEF Backed
      <3> QED  BY <2>8, <2>13, <2>15, <3>1, <3>2, <3>3
    <2>16. CASE Put(s, Finished(adopted, "error", FALSE))
      <3>1. PICK new : new = Finished(adopted, "error", FALSE)  OBVIOUS
      <3>2. "error" \in Statuses /\ FALSE \in BOOLEAN  BY DEF Statuses
      <3>3. LET put == Finished(adopted, "error", FALSE) IN
            /\ Fits(put) /\ put.status = "error"
            /\ put.phase \in {"idle", "top"}
            /\ put.op = "restore" <=> adopted.op = "restore"
            /\ put.working = adopted.working /\ put.saved = adopted.saved
            /\ put.rev = adopted.rev
        BY <2>9, <3>2, FinishedFits
      <3>4. Backed(new)  BY <2>12, <3>1, <3>3 DEF Backed
      <3> QED  BY <2>8, <2>13, <2>16, <3>1, <3>3, <3>4
    <2> QED  BY <1>7, <1>8, <2>14, <2>15, <2>16
  <1> QED  BY <1>7, <1>8, <1>9

LEMMA SendRestoreInv ==
    ASSUME WorkspaceInv, NEW s \in Sessions, sendRestore(s)
    PROVE  WorkspaceInv'
  <1>1. PICK old : old = editor[s]  OBVIOUS
  <1>2. Fits(old) /\ Backed(old) /\ old \in Editors /\ old.op = "go"
    BY <1>1, Known DEF sendRestore
  <1>3. old.target \in Docs /\ Flushes(old.chain) = {}  BY <1>2 DEF Fits
  <1>4. /\ budget' \in 0..MaxSurprises /\ records' \in Records
        /\ \/ /\ Put(s, [old EXCEPT !.op = None, !.target = None])
              /\ UNCHANGED <<log, live, call>>
           \/ /\ Begin(<<s, "restore">>, old.rev, old.target)
              /\ Put(s, [old EXCEPT !.op = "restore"])
    BY <1>1 DEF sendRestore, WorkspaceInv
  <1>5. CASE /\ Put(s, [old EXCEPT !.op = None, !.target = None])
             /\ UNCHANGED <<log, live, call>>
    <2>1. PICK new : new = [old EXCEPT !.op = None, !.target = None]  OBVIOUS
    <2>2. /\ new \in Editors /\ new.op = None
          /\ \A f \in {"working", "saved", "rev", "status", "phase", "chain", "next",
                       "sent"} : new[f] = old[f]
      BY <1>2, <2>1 DEF Editors
    <2>3. None \notin {"flush", "go", "restore"}  BY WorkspaceAssumption
    <2>4. Fits(new)  BY <1>2, <1>3, <2>2, <2>3 DEF Fits
    <2>5. Backed(new)  BY <1>2, <2>2 DEF Backed
    <2>6. new.rev = old.rev /\ \A kind \in Kinds : Waits(new, kind) => Waits(old, kind)
      BY <2>2, <2>3 DEF Waits
    <2>7. Put(s, new)  BY <1>5, <2>1
    <2> QED  BY <1>1, <1>4, <1>5, <2>4, <2>5, <2>6, <2>7, TurnInv
  <1>6. CASE /\ Begin(<<s, "restore">>, old.rev, old.target)
             /\ Put(s, [old EXCEPT !.op = "restore"])
    <2>1. PICK new : new = [old EXCEPT !.op = "restore"]  OBVIOUS
    <2>2. /\ new \in Editors /\ new.op = "restore"
          /\ \A f \in {"working", "saved", "rev", "status", "phase", "chain", "next",
                       "sent", "target"} : new[f] = old[f]
      BY <1>2, <2>1 DEF Editors
    <2>3. Fits(new)  BY <1>2, <1>3, <2>2 DEF Fits
    <2>4. Backed(new)  BY <1>2, <2>2 DEF Backed
    <2>5. new.rev = editor[s].rev /\ "restore" \in Kinds
          /\ \A other \in Kinds \ {"restore"} : Waits(new, other) => Waits(editor[s], other)
      BY <1>1, <2>2 DEF Waits, Kinds
    <2>6. Put(s, new) /\ Begin(<<s, "restore">>, editor[s].rev, old.target)
      BY <1>1, <1>6, <2>1
    <2> QED  BY <1>3, <1>4, <2>3, <2>4, <2>5, <2>6, BeginInv
  <1> QED  BY <1>4, <1>5, <1>6

(* A page gives its restore up.                                            *)
LEMMA OverFits ==
    ASSUME NEW old, Fits(old), old.op = "restore"
    PROVE  LET over == [old EXCEPT !.op = None, !.target = None] IN
           /\ Fits(over) /\ over \in Editors /\ ~ Waits(over, "restore")
           /\ \A f \in {"working", "saved", "rev", "status", "phase", "chain", "next",
                        "sent"} : over[f] = old[f]
  <1>1. PICK over : over = [old EXCEPT !.op = None, !.target = None]  OBVIOUS
  <1>2. old \in Editors /\ Flushes(old.chain) = {}  BY DEF Fits
  <1>3. /\ over \in Editors /\ over.op = None
        /\ \A f \in {"working", "saved", "rev", "status", "phase", "chain", "next",
                     "sent"} : over[f] = old[f]
    BY <1>1, <1>2 DEF Editors
  <1>4. None \notin {"flush", "go", "restore"}  BY WorkspaceAssumption
  <1>5. Fits(over)  BY <1>2, <1>3, <1>4 DEF Fits
  <1>6. ~ Waits(over, "restore")  BY <1>3, <1>4 DEF Waits
  <1> QED  BY <1>1, <1>3, <1>5, <1>6

LEMMA RestoreAnsweredInv ==
    ASSUME WorkspaceInv, NEW s \in Sessions, restoreAnswered(s)
    PROVE  WorkspaceInv'
  <1>1. PICK old, a : old = editor[s] /\ a = call[<<s, "restore">>]  OBVIOUS
  <1>2. /\ Fits(old) /\ Backed(old) /\ old \in Editors /\ old.rev \in Nat
        /\ old.rev <= Len(log)
    BY <1>1, Known
  <1>3. PICK over : over = [old EXCEPT !.op = None, !.target = None]  OBVIOUS
  <1>4. PICK copy : copy = [doc |-> log[a.rev], recs |-> old.saved.recs]  OBVIOUS
  <1>5. /\ old.op = "restore" /\ Return(<<s, "restore">>) /\ records' \in Records
        /\ budget' \in 0..MaxSurprises
        /\ \/ /\ a.outcome = "ok"
              /\ Put(s, [over EXCEPT !.working = copy, !.saved = copy,
                                     !.rev = a.rev, !.status = "saved"])
           \/ Put(s, [over EXCEPT !.status = "conflict"])
           \/ Put(s, over)
    BY <1>1, <1>3, <1>4 DEF restoreAnswered, WorkspaceInv
  <1>6. /\ UNCHANGED <<log, live>> /\ a.at = "done"
        /\ call' \in [Clients -> Calls] /\ call'[<<s, "restore">>] = NotCalling
        /\ \A c \in Clients : c[1] # s => call'[c] = call[c]
        /\ \A k \in Kinds : call'[<<s, k>>] \in {call[<<s, k>>], NotCalling}
    BY <1>1, <1>5, ReturnFacts DEF Kinds
  <1>7. /\ Fits(over) /\ over \in Editors /\ ~ Waits(over, "restore")
        /\ \A f \in {"working", "saved", "rev", "status", "phase", "chain", "next",
                     "sent"} : over[f] = old[f]
    BY <1>2, <1>3, <1>5, OverFits
  <1>8. Backed(over)  BY <1>2, <1>7 DEF Backed
  <1>9. ASSUME NEW new, Fits(new), Backed(new), Put(s, new), new.phase = old.phase,
               \/ new.rev = old.rev
               \/ /\ old.rev <= new.rev
                  /\ Waits(old, "save") => ~ Won(call[<<s, "save">>])
        PROVE  WorkspaceInv'
    <2>1. editor[s].rev <= new.rev  BY <1>1, <1>2, <1>9
    <2>2. ASSUME NEW kind \in Kinds, Waits(new, kind)
          PROVE  \/ call'[<<s, kind>>] = NotCalling
                 \/ /\ Waits(editor[s], kind)
                    /\ new.rev = editor[s].rev \/ ~ Won(call[<<s, kind>>])
      <3>1. CASE kind = "restore"  BY <1>6, <3>1
      <3>2. CASE kind = "save"
        <4>1. Waits(old, "save")  BY <1>9, <2>2, <3>2 DEF Waits
        <4> QED  BY <1>1, <1>9, <3>2, <4>1
      <3> QED  BY <3>1, <3>2 DEF Kinds
    <2> QED  BY <1>5, <1>6, <1>9, <2>1, <2>2, PageInv
  <1>10. CASE /\ a.outcome = "ok"
              /\ Put(s, [over EXCEPT !.working = copy, !.saved = copy,
                                     !.rev = a.rev, !.status = "saved"])
    <2>1. Waits(old, "restore") /\ "restore" \in Kinds /\ "save" \in Kinds
      BY <1>5 DEF Waits, Kinds
    <2>2. /\ a.rev \in Nat \ {0} /\ old.rev < a.rev /\ a.rev <= Len(log)
          /\ log[a.rev] \in Docs
          /\ Waits(old, "save") => ~ Won(call[<<s, "save">>])
      BY <1>1, <1>6, <1>10, <2>1, WonAnswer
    <2>3. copy \in Copies /\ copy.doc = log[a.rev]
      BY <1>2, <1>4, <2>2, FitFields DEF Copies
    <2>4. PICK new : new = [over EXCEPT !.working = copy, !.saved = copy,
                                        !.rev = a.rev, !.status = "saved"]
      OBVIOUS
    <2>5. /\ new \in Editors /\ new.saved = copy /\ new.working = copy /\ new.rev = a.rev
          /\ \A f \in {"phase", "chain", "next", "sent", "op", "target"} : new[f] = over[f]
      BY <1>7, <2>2, <2>3, <2>4 DEF Editors, Statuses
    <2>6. Fits(new)  BY <1>7, <2>5 DEF Fits
    <2>7. Held(copy.doc, a.rev)  BY <2>2, <2>3 DEF Held
    <2>8. \A x : Held(x, old.rev) => Held(x, a.rev)  BY <1>2, <2>2 DEF Held
    <2>9. Backed(new)  BY <1>2, <1>7, <2>2, <2>5, <2>7, <2>8 DEF Backed
    <2>10. old.rev <= new.rev  BY <1>2, <2>2, <2>5
    <2> QED  BY <1>7, <1>9, <1>10, <2>2, <2>4, <2>5, <2>6, <2>9, <2>10
  <1>11. CASE Put(s, [over EXCEPT !.status = "conflict"])
    <2>1. PICK new : new = [over EXCEPT !.status = "conflict"]  OBVIOUS
    <2>2. /\ new \in Editors /\ new.status = "conflict"
          /\ \A f \in {"working", "saved", "rev", "phase", "chain", "next", "sent", "op",
                       "target"} : new[f] = over[f]
      BY <1>7, <2>1 DEF Editors, Statuses
    <2>3. Fits(new)  BY <1>7, <2>2 DEF Fits
    <2>4. Backed(new)  BY <1>8, <2>2 DEF Backed
    <2> QED  BY <1>7, <1>9, <1>11, <2>1, <2>2, <2>3, <2>4
  <1>12. CASE Put(s, over)  BY <1>7, <1>8, <1>9, <1>12
  <1> QED  BY <1>5, <1>10, <1>11, <1>12

LEMMA ConnectionBreaksInv ==
    ASSUME WorkspaceInv, NEW s \in Sessions, connectionBreaks(s)
    PROVE  WorkspaceInv'
  <1>1. PICK old : old = editor[s]  OBVIOUS
  <1>2. Fits(old) /\ Backed(old)  BY <1>1, Known
  <1>3. /\ UNCHANGED <<log, live>> /\ call' = call /\ records' \in Records
        /\ budget' \in 0..MaxSurprises
    BY Spent DEF connectionBreaks, WorkspaceInv
  <1>4. CASE old.phase = "saving" /\ Put(s, Finished(old, "error", FALSE))
    <2>1. call' \in [Clients -> Calls]  BY <1>3 DEF WorkspaceInv, LogTypeOK
    <2>2. editor[s].phase # "idle" /\ Put(s, Finished(editor[s], "error", FALSE))
      BY <1>1, <1>4
    <2> QED  BY <1>3, <2>1, <2>2, FinishedInv
  <1>5. CASE old.op = "restore" /\ Put(s, [old EXCEPT !.op = None, !.target = None])
    <2>1. PICK over : over = [old EXCEPT !.op = None, !.target = None]  OBVIOUS
    <2>2. /\ Fits(over) /\ over \in Editors /\ ~ Waits(over, "restore")
          /\ \A f \in {"working", "saved", "rev", "status", "phase", "chain", "next",
                       "sent"} : over[f] = old[f]
      BY <1>2, <1>5, <2>1, OverFits
    <2>3. Backed(over)  BY <1>2, <2>2 DEF Backed
    <2>4. \A kind \in Kinds : Waits(over, kind) => Waits(old, kind)
      BY <2>2 DEF Waits
    <2> QED  BY <1>1, <1>3, <1>5, <2>1, <2>2, <2>3, <2>4, TurnInv
  <1> QED  BY <1>1, <1>4, <1>5 DEF connectionBreaks

LEMMA FreshFits ==
    ASSUME WorkspaceInv \/ (LogTypeOK /\ log # <<>> /\ records \in Records)
    PROVE  /\ Fits(Fresh) /\ Backed(Fresh) /\ Fresh \in Editors /\ Fresh.rev = Len(log)
           /\ \A kind \in Kinds : ~ Waits(Fresh, kind)
  <1>1. LogTypeOK /\ log # <<>> /\ records \in Records  BY DEF WorkspaceInv
  <1>2. PICK n \in Nat \ {0} : n = Len(log)  BY <1>1 DEF LogTypeOK
  <1>3. Stored \in Copies /\ Stored.doc = log[n]
    <2>1. log[n] \in Docs  BY <1>1, <1>2 DEF LogTypeOK
    <2> QED  BY <1>1, <1>2, <2>1 DEF Stored, Copies
  <1>4. PICK new, copy : new = Fresh /\ copy = Stored  OBVIOUS
  <1>5. <<>> \in Chains  BY DEF Chains
  <1>6. new = [working |-> copy, saved |-> copy, rev |-> n,
               status |-> "clean", timer |-> FALSE, chain |-> <<>>,
               phase |-> "idle", sent |-> None, next |-> None,
               op |-> None, target |-> None]
    BY <1>2, <1>4 DEF Fresh
  <1>7. new \in Editors  BY <1>3, <1>4, <1>5, <1>6 DEF Editors, Statuses, Chains
  <1>8. Flushes(new.chain) = {}  BY <1>6 DEF Flushes
  <1>9. None \notin {"flush", "go", "restore"}  BY WorkspaceAssumption
  <1>10. Fits(new)  BY <1>6, <1>7, <1>8, <1>9 DEF Fits
  <1>11. Held(copy.doc, n)  BY <1>3, <1>4 DEF Held
  <1>12. Backed(new)  BY <1>2, <1>6, <1>11 DEF Backed
  <1>13. \A kind \in Kinds : ~ Waits(new, kind)  BY <1>6, <1>9 DEF Waits
  <1>14. new.rev = Len(log) /\ new = Fresh  BY <1>2, <1>4, <1>6
  <1> HIDE DEF Fresh
  <1> QED  BY <1>7, <1>10, <1>12, <1>13, <1>14

LEMMA ReloadInv ==
    ASSUME WorkspaceInv, NEW s \in Sessions, reload(s)
    PROVE  WorkspaceInv'
  <1>1. PICK new : new = Fresh  OBVIOUS
  <1>2. /\ Fits(new) /\ Backed(new) /\ new.rev = Len(log)
        /\ \A kind \in Kinds : ~ Waits(new, kind)
    BY <1>1, FreshFits
  <1>3. editor[s].rev <= new.rev  BY <1>2, Known
  <1>4. /\ Put(s, new) /\ UNCHANGED <<log, live>> /\ call' = call /\ records' \in Records
        /\ budget' \in 0..MaxSurprises
    BY <1>1, Spent DEF reload, WorkspaceInv
  <1>5. call' \in [Clients -> Calls]  BY <1>4 DEF WorkspaceInv, LogTypeOK
  <1> QED  BY <1>2, <1>3, <1>4, <1>5, PageInv

(* The server's part of a request of session s.                            *)
LEMMA ServerInv ==
    ASSUME WorkspaceInv, NEW s \in Sessions, NEW kind \in Kinds, NEW b \in Calls,
           call' = [call EXCEPT ![<<s, kind>>] = b],
           UNCHANGED <<records, editor>>, budget' \in 0..MaxSurprises,
           LogTypeOK', Grows, Promises(editor[s], kind, b)',
           Waits(editor[s], kind) /\ Won(b) =>
              \A other \in Kinds \ {kind} :
                 ~ (Waits(editor[s], other) /\ Won(call[<<s, other>>]))
    PROVE  WorkspaceInv'
  <1>1. PICK ed, c : ed = editor[s] /\ c = <<s, kind>>  OBVIOUS
  <1>2. /\ Fits(ed) /\ Backed(ed) /\ Faithful(s) /\ LogTypeOK /\ ed.rev \in Nat
        /\ ed.rev <= Len(log) /\ c \in Clients
    BY <1>1, Known
  <1>3. editor' = [editor EXCEPT ![s] = ed]  BY <1>1 DEF WorkspaceInv
  <1>4. call'[c] = b /\ \A e \in Clients : e # c => call'[e] = call[e]
    BY <1>1, <1>2 DEF LogTypeOK
  <1>5. \A e \in Clients : e[1] # s => call'[e] = call[e]  BY <1>1, <1>4
  <1>6. Backed(ed)'  BY <1>2, BackedStays
  <1>7. Len(log) \in Nat /\ Len(log)' \in Nat  BY <1>2 DEF LogTypeOK
  <1>8. ASSUME NEW k \in Kinds  PROVE Promises(ed, k, call[<<s, k>>])'
    <2>1. CASE k = kind
      <3>1. editor'[s] = ed  BY <1>1
      <3> QED  BY <1>1, <1>4, <2>1, <3>1 DEF Promises
    <2>2. CASE k # kind
      <3>1. PICK a : a = call[<<s, k>>]  OBVIOUS
      <3>2. <<s, k>> \in Clients /\ <<s, k>> # c  BY <1>1, <2>2, Known
      <3>3. a = call'[<<s, k>>] /\ Promises(ed, k, a) /\ a \in Calls
        BY <1>1, <1>2, <1>4, <3>1, <3>2, Known DEF Faithful
      <3>4. Promises(ed, k, a)'
        BY <1>2, <1>7, <3>3, CallFacts DEF Promises, Grows
      <3> QED  BY <3>3, <3>4 DEF Promises
    <2> QED  BY <2>1, <2>2
  <1>9. \E k \in Kinds : ~ (Waits(ed, k) /\ Won(call'[<<s, k>>]))
    <2>1. CASE ~ (Waits(ed, kind) /\ Won(b))  BY <1>1, <1>4, <2>1
    <2>2. CASE Waits(ed, kind) /\ Won(b)
      <3>1. PICK other \in Kinds \ {kind} : TRUE  BY DEF Kinds
      <3>2. <<s, other>> \in Clients /\ <<s, other>> # c  BY <1>1, <3>1, Known
      <3>3. ~ (Waits(ed, other) /\ Won(call'[<<s, other>>]))
        BY <1>1, <1>4, <2>2, <3>1, <3>2
      <3> QED  BY <3>1, <3>3
    <2> QED  BY <2>1, <2>2
  <1>10. records' \in Records  BY DEF WorkspaceInv
  <1> QED  BY <1>2, <1>3, <1>5, <1>6, <1>8, <1>9, <1>10, WorkspaceStep

LEMMA Decomposed ==
    ASSUME NEW c \in Clients
    PROVE  \E s \in Sessions, kind \in Kinds : c = <<s, kind>>
  BY WorkspaceAssumption DEF Kinds

(* A write takes effect only for a page whose revision is the newest.      *)
LEMMA CommitIsCurrent ==
    ASSUME WorkspaceInv, NEW s \in Sessions, NEW kind \in Kinds, Commit(<<s, kind>>)
    PROVE  /\ call[<<s, kind>>].base = Len(log) /\ editor[s].rev = Len(log)
           /\ call[<<s, kind>>] \in Calls /\ call[<<s, kind>>].at = "pending"
  <1>1. PICK a : a = call[<<s, kind>>]  OBVIOUS
  <1>2. a.at = "pending" /\ a.base = Len(log)  BY <1>1 DEF Commit
  <1>3. /\ a \in Calls /\ Promises(editor[s], kind, a) /\ editor[s].rev \in Nat
        /\ editor[s].rev <= Len(log) /\ Len(log) \in Nat
    BY <1>1, Known DEF Faithful
  <1>4. a.base <= editor[s].rev  BY <1>2, <1>3 DEF Promises
  <1> QED  BY <1>1, <1>2, <1>3, <1>4

LEMMA CommitInv ==
    ASSUME WorkspaceInv, NEW s \in Sessions, NEW kind \in Kinds, Commit(<<s, kind>>),
           UNCHANGED <<records, editor>>, budget' \in 0..MaxSurprises
    PROVE  WorkspaceInv'
  <1>1. PICK a, c, ed : a = call[<<s, kind>>] /\ c = <<s, kind>> /\ ed = editor[s]
    OBVIOUS
  <1>2. /\ a.base = Len(log) /\ ed.rev = Len(log) /\ a \in Calls /\ a.at = "pending"
        /\ a.doc \in Docs /\ a.base \in Nat
    BY <1>1, CommitIsCurrent, CallFacts
  <1>3. /\ LogTypeOK /\ c \in Clients /\ Faithful(s) /\ Len(log) \in Nat
    BY <1>1, Known
  <1>4. PICK b : b = [a EXCEPT !.at = "committed"]  OBVIOUS
  <1>5. b \in Calls /\ b.at = "committed" /\ b.base = a.base
    <2>1. a \in [at : {"pending", "committed"}, base : Nat, doc : Docs]
      BY <1>2 DEF Calls, NotCalling
    <2> QED  BY <1>4, <2>1 DEF Calls
  <1>6. /\ call' = [call EXCEPT ![c] = b] /\ log' = Append(log, a.doc) /\ live' = live
    BY <1>1, <1>3, <1>4 DEF Commit, LogTypeOK
  <1>7. LogTypeOK' /\ Grows /\ Len(log)' = Len(log) + 1
    BY <1>2, <1>3, <1>5, <1>6 DEF LogTypeOK, Grows
  <1>8. editor'[s] = ed  BY <1>1
  <1>9. Promises(editor[s], kind, b)'
    BY <1>2, <1>3, <1>5, <1>7, <1>8 DEF Promises
  <1>10. ASSUME NEW other \in Kinds \ {kind}
         PROVE  ~ (Waits(editor[s], other) /\ Won(call[<<s, other>>]))
    <2>1. PICK o : o = call[<<s, other>>]  OBVIOUS
    <2>2. o \in Calls /\ Promises(ed, other, o)  BY <1>1, <1>3, <2>1, Known DEF Faithful
    <2>3. o.at = "done" => o.rev \in Nat  BY <2>2, CallFacts
    <2> QED  BY <1>1, <1>2, <1>3, <2>1, <2>2, <2>3 DEF Promises, Won
  <1> QED  BY <1>1, <1>5, <1>6, <1>7, <1>9, <1>10, ServerInv

(* The end of a request that has not won.                                  *)
LEMMA LostInv ==
    ASSUME WorkspaceInv, NEW s \in Sessions, NEW kind \in Kinds, NEW b \in Calls,
           b.at \in {"done", "idle"}, ~ Won(b),
           call' = [call EXCEPT ![<<s, kind>>] = b],
           UNCHANGED <<log, records, editor>>, live' \in BOOLEAN,
           budget' \in 0..MaxSurprises
    PROVE  WorkspaceInv'
  <1>1. LogTypeOK /\ <<s, kind>> \in Clients  BY Known
  <1>2. LogTypeOK' /\ Grows  BY <1>1 DEF LogTypeOK, Grows
  <1>3. Promises(editor[s], kind, b)'  BY DEF Promises, Won
  <1> QED  BY <1>2, <1>3, ServerInv

LEMMA AnswerInv ==
    ASSUME WorkspaceInv, NEW s \in Sessions, NEW kind \in Kinds, Answer(<<s, kind>>),
           UNCHANGED <<records, editor>>, budget' \in 0..MaxSurprises
    PROVE  WorkspaceInv'
  <1>1. PICK a, c, ed : a = call[<<s, kind>>] /\ c = <<s, kind>> /\ ed = editor[s]
    OBVIOUS
  <1>2. /\ LogTypeOK /\ c \in Clients /\ Faithful(s) /\ a \in Calls /\ ed.rev \in Nat
        /\ Len(log) \in Nat /\ Promises(ed, kind, a) /\ live \in BOOLEAN
    BY <1>1, Known DEF Faithful, LogTypeOK
  <1>3. a.at = "committed" /\ a.base \in Nat /\ UNCHANGED <<log, live>>
    BY <1>1, <1>2, CallFacts DEF Answer
  <1>4. \/ \E rev \in a.base + 1 .. Len(log) : call' = [call EXCEPT ![c] = Done("ok", rev)]
        \/ call' = [call EXCEPT ![c] = Done("not-found", 0)]
    BY <1>1 DEF Answer
  <1>5. CASE \E rev \in a.base + 1 .. Len(log) : call' = [call EXCEPT ![c] = Done("ok", rev)]
    <2>1. PICK rev \in a.base + 1 .. Len(log) : call' = [call EXCEPT ![c] = Done("ok", rev)]
      BY <1>5
    <2>2. PICK b : b = Done("ok", rev)  OBVIOUS
    <2>3. b \in Calls /\ b.at = "done" /\ b.outcome = "ok" /\ b.rev = rev /\ rev \in Nat
      BY <1>2, <1>3, <2>1, <2>2 DEF Done, Calls, Outcomes
    <2>4. LogTypeOK' /\ Grows /\ log' = log
      BY <1>2, <1>3, <2>1, <2>2, <2>3 DEF LogTypeOK, Grows
    <2>5. Waits(ed, kind) => ed.rev < rev /\ rev <= Len(log)
      BY <1>2, <1>3, <2>1 DEF Promises
    <2>6. editor'[s] = ed  BY <1>1
    <2>7. Promises(editor[s], kind, b)'  BY <2>3, <2>4, <2>5, <2>6 DEF Promises
    <2>8. Won(a)  BY <1>3 DEF Won
    <2>9. Waits(ed, kind) => \A other \in Kinds \ {kind} :
            ~ (Waits(ed, other) /\ Won(call[<<s, other>>]))
      BY <1>1, <1>2, <2>8 DEF Faithful, Kinds
    <2> QED  BY <1>1, <2>1, <2>2, <2>3, <2>4, <2>7, <2>9, ServerInv
  <1>6. CASE call' = [call EXCEPT ![c] = Done("not-found", 0)]
    <2>1. PICK b : b = Done("not-found", 0)  OBVIOUS
    <2>2. b \in Calls /\ b.at \in {"done", "idle"} /\ ~ Won(b)
      BY <2>1 DEF Done, Calls, Outcomes, Won
    <2> QED  BY <1>1, <1>2, <1>3, <1>6, <2>1, <2>2, LostInv
  <1> QED  BY <1>4, <1>5, <1>6

LEMMA RefuseOrLoseInv ==
    ASSUME WorkspaceInv, NEW s \in Sessions, NEW kind \in Kinds,
           Refuse(<<s, kind>>) \/ Lose(<<s, kind>>),
           UNCHANGED <<records, editor>>, budget' \in 0..MaxSurprises
    PROVE  WorkspaceInv'
  <1>1. UNCHANGED <<log, live>> /\ live \in BOOLEAN
    BY DEF Refuse, Lose, WorkspaceInv, LogTypeOK
  <1>2. PICK outcome \in {"conflict", "not-found", "validation", "error"} :
          call' = [call EXCEPT ![<<s, kind>>] = Done(outcome, 0)]
    BY DEF Refuse, Lose
  <1>3. PICK b : b = Done(outcome, 0)  OBVIOUS
  <1>4. b \in Calls /\ b.at \in {"done", "idle"} /\ ~ Won(b)
    BY <1>3 DEF Done, Calls, Outcomes, Won
  <1> QED  BY <1>1, <1>2, <1>3, <1>4, LostInv

LEMMA ServerStepInv ==
    ASSUME WorkspaceInv, NEW c \in Clients, serverStep(c) \/ requestLost(c) \/ answerDropped(c)
    PROVE  WorkspaceInv'
  <1>1. PICK s \in Sessions, kind \in Kinds : c = <<s, kind>>  BY Decomposed
  <1>2. UNCHANGED <<records, editor>> /\ budget' \in 0..MaxSurprises
    BY Spent DEF serverStep, requestLost, answerDropped
  <1>3. CASE Commit(c)  BY <1>1, <1>2, <1>3, CommitInv
  <1>4. CASE Refuse(c) \/ Lose(c)  BY <1>1, <1>2, <1>4, RefuseOrLoseInv
  <1>5. CASE Answer(c)  BY <1>1, <1>2, <1>5, AnswerInv
  <1>6. CASE Return(c)
    <2>1. /\ call' = [call EXCEPT ![<<s, kind>>] = NotCalling]
          /\ UNCHANGED <<log, live>> /\ live' \in BOOLEAN
      BY <1>1, <1>6 DEF Return, WorkspaceInv, LogTypeOK
    <2>2. NotCalling \in Calls /\ NotCalling.at \in {"done", "idle"} /\ ~ Won(NotCalling)
      BY DEF Calls, NotCalling, Won
    <2> QED  BY <1>2, <2>1, <2>2, LostInv
  <1> QED  BY <1>3, <1>4, <1>5, <1>6 DEF serverStep, requestLost, answerDropped

LEMMA ElsewhereInv ==
    ASSUME WorkspaceInv, writtenElsewhere \/ deletedElsewhere \/ UNCHANGED vars
    PROVE  WorkspaceInv'
  <1>1. /\ editor' = editor /\ call' = call /\ records' = records /\ live' \in BOOLEAN
        /\ budget' \in 0..MaxSurprises
        /\ log' = log \/ \E d \in Docs : log' = Append(log, d)
    BY Spent DEF writtenElsewhere, deletedElsewhere, Delete, vars, WorkspaceInv,
       LogTypeOK, Normal
  <1>2. LogTypeOK /\ log # <<>>  BY DEF WorkspaceInv
  <1>3. LogTypeOK' /\ Grows
    <2>1. CASE log' = log  BY <1>1, <1>2, <2>1 DEF LogTypeOK, Grows
    <2>2. CASE \E d \in Docs : log' = Append(log, d)
      BY <1>1, <1>2, <2>2 DEF LogTypeOK, Grows
    <2> QED  BY <1>1, <2>1, <2>2
  <1>4. log' # <<>>  BY <1>2, <1>3, NonEmptyStays
  <1>5. \A d \in Sessions : (Fits(editor[d]) /\ Backed(editor[d]) /\ Faithful(d))'
    BY <1>1, <1>3, SessionStays
  <1> QED  BY <1>1, <1>3, <1>4, <1>5 DEF WorkspaceInv

----
(* The invariant.                                                          *)

LEMMA StepInv == WorkspaceInv /\ [Next]_vars => WorkspaceInv'
  <1> SUFFICES ASSUME WorkspaceInv, [Next]_vars  PROVE WorkspaceInv'
    OBVIOUS
  <1>1. ASSUME NEW s \in Sessions, PageStep(s)  PROVE WorkspaceInv'
    BY <1>1, DebounceInv, SaveLoopInv, SaveAnsweredInv, UpsertInv, UpsertFailsInv,
       SendRestoreInv, RestoreAnsweredInv DEF PageStep
  <1>2. ASSUME NEW s \in Sessions, edit(s) \/ handleRestore(s) \/ reload(s) \/ connectionBreaks(s)
        PROVE  WorkspaceInv'
    BY <1>2, EditInv, HandleRestoreInv, ReloadInv, ConnectionBreaksInv
  <1> QED  BY <1>1, <1>2, ServerStepInv, ElsewhereInv DEF Next

LEMMA InitInv == Init => WorkspaceInv
  <1> SUFFICES ASSUME Init  PROVE WorkspaceInv
    OBVIOUS
  <1>1. /\ LogTypeOK /\ log # <<>> /\ records \in Records
        /\ \A c \in Clients : call[c] = NotCalling
    BY DEF Init, LogInit, LogTypeOK, Calls
  <1>2. PICK new : new = Fresh  OBVIOUS
  <1>3. Fits(new) /\ Backed(new) /\ new \in Editors  BY <1>1, <1>2, FreshFits
  <1>4. editor = [s \in Sessions |-> new] /\ budget \in 0..MaxSurprises
    BY <1>2, WorkspaceAssumption DEF Init
  <1>5. ASSUME NEW s \in Sessions  PROVE Faithful(s)
    <2>1. \A kind \in Kinds : call[<<s, kind>>] = NotCalling
      BY <1>1, WorkspaceAssumption DEF Kinds
    <2> QED  BY <2>1 DEF Faithful, Promises, Won, NotCalling, Kinds
  <1> QED  BY <1>1, <1>3, <1>4, <1>5 DEF WorkspaceInv

LEMMA Invariance == Spec => []WorkspaceInv
  BY InitInv, StepInv, PTL DEF Spec

----
(* Requests take effect at one step only.                                  *)
LEMMA OnlyCommit ==
    ASSUME WorkspaceInv, [Next]_vars, NEW c \in Clients,
           call[c].at = "pending", call'[c].at = "committed"
    PROVE  Commit(c)
  <1>1. call \in [Clients -> Calls]  BY DEF WorkspaceInv, LogTypeOK
  <1>2. call' # call  OBVIOUS
  <1>3. ASSUME NEW e \in Clients, NEW b, call' = [call EXCEPT ![e] = b], b.at # "committed"
        PROVE  FALSE
    BY <1>1, <1>3
  <1>4. ASSUME NEW e, NEW n, NEW d, e \in Clients, Begin(e, n, d)  PROVE FALSE
    BY <1>3, <1>4 DEF Begin
  <1>5. ASSUME NEW e, e \in Clients, Return(e)  PROVE FALSE
    BY <1>3, <1>5 DEF Return, NotCalling
  <1>6. ASSUME NEW e \in Clients, Refuse(e) \/ Answer(e) \/ Lose(e)  PROVE FALSE
    BY <1>3, <1>6 DEF Refuse, Answer, Lose, Done
  <1>7. ASSUME NEW e \in Clients, Commit(e)  PROVE e = c
    BY <1>1, <1>7 DEF Commit
  <1>8. \A s \in Sessions, kind \in Kinds : <<s, kind>> \in Clients
    BY WorkspaceAssumption DEF Kinds
  <1>9. ASSUME NEW s \in Sessions, PageStep(s)  PROVE FALSE
    <2>1. CASE saveLoop(s)
      BY <1>2, <1>4, <1>8, <2>1 DEF saveLoop, Kinds
    <2>2. CASE sendRestore(s)
      BY <1>2, <1>4, <1>8, <2>2 DEF sendRestore, Kinds
    <2>3. CASE saveAnswered(s) \/ restoreAnswered(s)
      BY <1>5, <1>8, <2>3 DEF saveAnswered, restoreAnswered, Kinds
    <2>4. CASE debounceFires(s) \/ upsertRecords(s) \/ upsertAnswered(s) \/ upsertFails(s)
      BY <1>2, <2>4 DEF debounceFires, upsertRecords, upsertAnswered, upsertFails
    <2> QED  BY <1>9, <2>1, <2>2, <2>3, <2>4 DEF PageStep
  <1>10. ASSUME NEW s \in Sessions,
                edit(s) \/ handleRestore(s) \/ reload(s) \/ connectionBreaks(s)
         PROVE  FALSE
    BY <1>2, <1>10 DEF edit, handleRestore, reload, connectionBreaks
  <1>11. ASSUME NEW e \in Clients, serverStep(e) \/ requestLost(e) \/ answerDropped(e)
         PROVE  Commit(c)
    BY <1>5, <1>6, <1>7, <1>11 DEF serverStep, requestLost, answerDropped
  <1>12. ~ (writtenElsewhere \/ deletedElsewhere \/ UNCHANGED vars)
    BY <1>2 DEF writtenElsewhere, deletedElsewhere, Delete, vars
  <1> QED  BY <1>9, <1>10, <1>11, <1>12 DEF Next

LEMMA ConflictStep ==
    ASSUME WorkspaceInv, [Next]_vars, NEW s \in Sessions, editor[s].rev < Len(log),
           NEW c \in {<<s, "save">>, <<s, "restore">>},
           call[c].at = "pending", call'[c].at = "committed"
    PROVE  FALSE
  <1>1. PICK kind \in Kinds : c = <<s, kind>>  BY DEF Kinds
  <1>2. c \in Clients /\ editor[s].rev \in Nat /\ Len(log) \in Nat  BY <1>1, Known
  <1>3. Commit(<<s, kind>>)  BY <1>1, <1>2, OnlyCommit
  <1>4. editor[s].rev = Len(log)  BY <1>3, CommitIsCurrent
  <1> QED  BY <1>2, <1>4

----
(* A step that changes the page of one session.                            *)
LEMMA PageKeepsRevision ==
    ASSUME NEW ed \in Editors, NEW status, NEW ok, NEW who
    PROVE  /\ Finished(ed, status, ok).rev = ed.rev
           /\ Settled(ed).rev = ed.rev
           /\ Scheduled(ed).rev = ed.rev
           /\ Enqueued(ed, who).rev = ed.rev
  <1>1. Finished(ed, status, ok).rev = ed.rev  BY DEF Finished, Editors
  <1>2. Settled(ed).rev = ed.rev  BY DEF Settled, Finished, Editors
  <1>3. Scheduled(ed).rev = ed.rev  BY DEF Scheduled, Editors
  <1>4. Enqueued(ed, who).rev = ed.rev  BY DEF Enqueued, Editors
  <1> QED  BY <1>1, <1>2, <1>3, <1>4

LEMMA PageAdvances ==
    ASSUME WorkspaceInv, NEW s \in Sessions, NEW ed, Put(s, ed), editor[s].rev <= ed.rev
    PROVE  \A d \in Sessions : editor[d].rev <= editor'[d].rev
  <1>1. editor \in [Sessions -> Editors]  BY DEF WorkspaceInv
  <1>2. editor'[s] = ed /\ \A d \in Sessions : d # s => editor'[d] = editor[d]
    BY <1>1 DEF Put
  <1>3. \A d \in Sessions : editor[d].rev \in Nat  BY Known
  <1> QED  BY <1>2, <1>3

LEMMA AnswerAdvances ==
    ASSUME WorkspaceInv, NEW s \in Sessions, saveAnswered(s) \/ restoreAnswered(s)
    PROVE  \E ed : Put(s, ed) /\ editor[s].rev <= ed.rev
  <1>1. PICK old : old = editor[s]  OBVIOUS
  <1>2. old \in Editors /\ old.rev \in Nat  BY <1>1, Known
  <1>3. ASSUME NEW kind \in Kinds, Waits(old, kind), Return(<<s, kind>>),
               NEW rev, rev = call[<<s, kind>>].rev, call[<<s, kind>>].outcome = "ok"
        PROVE  rev \in Nat \ {0} /\ old.rev < rev
    BY <1>1, <1>3, ReturnFacts, WonAnswer
  <1>4. CASE saveAnswered(s)
    <2>1. PICK a : a = call[<<s, "save">>]  OBVIOUS
    <2>2. PICK adopted : adopted = [old EXCEPT !.rev = a.rev, !.next.doc = log[a.rev]]
      OBVIOUS
    <2>3. /\ old.phase = "saving" /\ Return(<<s, "save">>)
          /\ \/ /\ a.outcome = "ok"
                /\ \/ Put(s, [adopted EXCEPT !.phase = "upserting"])
                   \/ Put(s, Settled(adopted))
                   \/ Put(s, Finished(adopted, "error", FALSE))
             \/ /\ a.outcome # "ok"
                /\ \E status : Put(s, Finished(old, status, FALSE))
      BY <1>1, <1>4, <2>1, <2>2 DEF saveAnswered
    <2>4. CASE a.outcome = "ok"
      <3>1. a.rev \in Nat \ {0} /\ old.rev < a.rev
        BY <1>3, <2>1, <2>3, <2>4 DEF Waits, Kinds
      <3>2. /\ [adopted EXCEPT !.phase = "upserting"].rev = a.rev
            /\ Settled(adopted).rev = a.rev
            /\ Finished(adopted, "error", FALSE).rev = a.rev
        BY <1>2, <2>2 DEF Editors, Settled, Finished
      <3>3. \E new : Put(s, new) /\ new.rev = a.rev
        BY <2>3, <2>4, <3>2, Zenon
      <3> QED  BY <1>1, <1>2, <3>1, <3>3
    <2>5. CASE a.outcome # "ok"
      <3>1. PICK status : Put(s, Finished(old, status, FALSE))  BY <2>3, <2>5
      <3>2. PICK new : new = Finished(old, status, FALSE)  OBVIOUS
      <3>3. new.rev = old.rev  BY <1>2, <3>2 DEF Finished, Editors
      <3>4. Put(s, new)  BY <3>1, <3>2, Zenon
      <3> QED  BY <1>1, <1>2, <3>3, <3>4
    <2> QED  BY <2>4, <2>5
  <1>5. CASE restoreAnswered(s)
    <2>1. PICK a : a = call[<<s, "restore">>]  OBVIOUS
    <2>2. PICK over, copy : /\ over = [old EXCEPT !.op = None, !.target = None]
                            /\ copy = [doc |-> log[a.rev], recs |-> old.saved.recs]
      OBVIOUS
    <2>3. over.rev = old.rev /\ [over EXCEPT !.status = "conflict"].rev = old.rev
      BY <1>2, <2>2 DEF Editors
    <2>4. [over EXCEPT !.working = copy, !.saved = copy, !.rev = a.rev,
                       !.status = "saved"].rev = a.rev
      BY <1>2, <2>2 DEF Editors
    <2>5. /\ old.op = "restore" /\ Return(<<s, "restore">>)
          /\ \/ /\ a.outcome = "ok"
                /\ Put(s, [over EXCEPT !.working = copy, !.saved = copy, !.rev = a.rev,
                                       !.status = "saved"])
             \/ Put(s, [over EXCEPT !.status = "conflict"])
             \/ Put(s, over)
      BY <1>1, <1>5, <2>1, <2>2 DEF restoreAnswered
    <2>6. a.outcome = "ok" => a.rev \in Nat \ {0} /\ old.rev < a.rev
      BY <1>3, <2>1, <2>5 DEF Waits, Kinds
    <2>7. \E new : Put(s, new) /\ (new.rev = old.rev \/ (new.rev = a.rev /\ a.outcome = "ok"))
      BY <2>3, <2>4, <2>5, Zenon
    <2> QED  BY <1>1, <1>2, <2>6, <2>7
  <1> QED  BY <1>4, <1>5

LEMMA RevisionStep ==
    ASSUME WorkspaceInv, [Next]_vars, NEW d \in Sessions
    PROVE  editor[d].rev <= editor'[d].rev
  <1>1. ASSUME NEW s \in Sessions, PageStep(s) \/ edit(s) \/ handleRestore(s)
                                     \/ reload(s) \/ connectionBreaks(s)
        PROVE  \E ed : Put(s, ed) /\ editor[s].rev <= ed.rev
    <2>1. PICK old : old = editor[s]  OBVIOUS
    <2>2. old \in Editors /\ old.rev \in Nat  BY <2>1, Known
    <2>3. ASSUME NEW ed, Put(s, ed), ed.rev = old.rev
          PROVE  \E new : Put(s, new) /\ editor[s].rev <= new.rev
      BY <2>1, <2>2, <2>3
    <2>4. CASE saveAnswered(s) \/ restoreAnswered(s)  BY <2>4, AnswerAdvances
    <2>5. CASE reload(s)
      BY <2>5, FreshFits, Known DEF reload
    <2>6. CASE edit(s)
      <3>1. PICK w \in Copies : Put(s, Scheduled([old EXCEPT !.working = w]))
        BY <2>1, <2>6 DEF edit
      <3>2. [old EXCEPT !.working = w] \in Editors /\ [old EXCEPT !.working = w].rev = old.rev
        BY <2>2 DEF Editors
      <3>3. Scheduled([old EXCEPT !.working = w]).rev = old.rev
        BY <3>2, PageKeepsRevision
      <3> QED  BY <2>3, <3>1, <3>3
    <2>7. CASE debounceFires(s)
      <3>1. Put(s, Enqueued([old EXCEPT !.timer = FALSE], "autosave"))
        BY <2>1, <2>7 DEF debounceFires
      <3>2. Enqueued([old EXCEPT !.timer = FALSE], "autosave").rev = old.rev
        BY <2>2 DEF Enqueued, Editors
      <3> QED  BY <2>3, <3>1, <3>2
    <2>8. CASE handleRestore(s)
      <3>1. PICK i \in 1..Len(log) :
              Put(s, Enqueued([old EXCEPT !.timer = FALSE, !.op = "flush", !.target = log[i]],
                              "ensure"))
        BY <2>1, <2>8 DEF handleRestore
      <3>2. Enqueued([old EXCEPT !.timer = FALSE, !.op = "flush", !.target = log[i]],
                     "ensure").rev = old.rev
        BY <2>2 DEF Enqueued, Editors
      <3> QED  BY <2>3, <3>1, <3>2
    <2>9. CASE connectionBreaks(s) \/ upsertFails(s) \/ sendRestore(s)
      <3>1. \/ Put(s, Finished(old, "error", FALSE))
            \/ Put(s, [old EXCEPT !.op = None, !.target = None])
            \/ Put(s, [old EXCEPT !.op = "restore"])
        BY <2>1, <2>9 DEF connectionBreaks, upsertFails, sendRestore
      <3>2. /\ Finished(old, "error", FALSE).rev = old.rev
            /\ [old EXCEPT !.op = None, !.target = None].rev = old.rev
            /\ [old EXCEPT !.op = "restore"].rev = old.rev
        BY <2>2 DEF Finished, Editors
      <3> QED  BY <2>3, <3>1, <3>2
    <2>10. CASE upsertRecords(s) \/ upsertAnswered(s)
      <3>1. \/ Put(s, [old EXCEPT !.phase = "upserted"])
            \/ Put(s, Settled([old EXCEPT !.next.recs = old.sent.recs]))
        BY <2>1, <2>10 DEF upsertRecords, upsertAnswered
      <3>2. /\ [old EXCEPT !.phase = "upserted"].rev = old.rev
            /\ Settled([old EXCEPT !.next.recs = old.sent.recs]).rev = old.rev
        BY <2>2 DEF Settled, Finished, Editors
      <3> QED  BY <2>3, <3>1, <3>2
    <2>11. CASE saveLoop(s)
      <3>1. \/ \E status, ok : Put(s, Finished(old, status, ok))
            \/ \E phase : Put(s, [[old EXCEPT !.status = "saving", !.sent = old.working,
                                              !.next = old.saved] EXCEPT !.phase = phase])
        BY <2>1, <2>11 DEF saveLoop
      <3>2. CASE \E status, ok : Put(s, Finished(old, status, ok))
        <4>1. PICK status, ok : Put(s, Finished(old, status, ok))  BY <3>2
        <4>2. Finished(old, status, ok).rev = old.rev  BY <2>2, PageKeepsRevision
        <4> QED  BY <2>3, <4>1, <4>2
      <3>3. CASE \E phase : Put(s, [[old EXCEPT !.status = "saving", !.sent = old.working,
                                              !.next = old.saved] EXCEPT !.phase = phase])
        <4>1. PICK phase : Put(s, [[old EXCEPT !.status = "saving", !.sent = old.working,
                                              !.next = old.saved] EXCEPT !.phase = phase])
          BY <3>3
        <4>2. [[old EXCEPT !.status = "saving", !.sent = old.working,
                           !.next = old.saved] EXCEPT !.phase = phase].rev = old.rev
          BY <2>2 DEF Editors
        <4> QED  BY <2>3, <4>1, <4>2
      <3> QED  BY <3>1, <3>2, <3>3
    <2> QED  BY <1>1, <2>4, <2>5, <2>6, <2>7, <2>8, <2>9, <2>10, <2>11 DEF PageStep
  <1>2. ASSUME UNCHANGED editor  PROVE editor[d].rev <= editor'[d].rev
    BY <1>2, Known
  <1>3. ASSUME NEW s \in Sessions, PageStep(s) \/ edit(s) \/ handleRestore(s)
                                     \/ reload(s) \/ connectionBreaks(s)
        PROVE  editor[d].rev <= editor'[d].rev
    BY <1>1, <1>3, PageAdvances
  <1>4. \/ \E s \in Sessions : PageStep(s) \/ edit(s) \/ handleRestore(s)
                                 \/ reload(s) \/ connectionBreaks(s)
        \/ UNCHANGED editor
    BY DEF Next, serverStep, requestLost, answerDropped, writtenElsewhere,
           deletedElsewhere, vars
  <1> QED  BY <1>2, <1>3, <1>4

----
(* The revision a page holds is one the store has had, and its loop runs   *)
(* exactly while calls of flushSave wait in saveChainRef                   *)
(* (ProjectWorkspace.tsx:440).                                             *)
THEOREM TypeCorrect == Spec => []TypeOK
  <1>1. ASSUME WorkspaceInv  PROVE TypeOK
    <2>1. \A s \in Sessions : /\ editor[s].rev <= Len(log)
                              /\ editor[s].phase = "idle" <=> editor[s].chain = <<>>
      BY <1>1 DEF WorkspaceInv, Fits, Backed
    <2> QED  BY <1>1, <2>1 DEF TypeOK, WorkspaceInv
  <1> QED  BY <1>1, Invariance, PTL

(* "Saved" on the screen stands for a document that the store did hold,    *)
(* for any number of sessions that save, restore, reload and lose their    *)
(* connection: what a page takes for saved is what an answer sent back     *)
(* (ProjectWorkspace.tsx:382, 735), and an edit during the request goes    *)
(* round the loop again (ProjectWorkspace.tsx:423).                        *)
THEOREM SavedIsStored == Spec => []SavedWasStored
  <1>1. WorkspaceInv => SavedWasStored
    BY DEF WorkspaceInv, Backed, Held, SavedWasStored
  <1> QED  BY <1>1, Invariance, PTL

(* A conflict fails closed: every request of a page, those it has given up *)
(* included, was made against a revision the page has passed, so none can  *)
(* take effect once the page's own revision is overtaken                   *)
(* (project-repository.ts:535, the UPDATE's own comparison).                *)
THEOREM ConflictIsFinal == Spec => ConflictStopsTheSession
  <1>1. ASSUME WorkspaceInv, [Next]_vars, NEW s \in Sessions,
               editor[s].status = "conflict" /\ editor[s].rev < Len(log),
               NEW c \in {<<s, "save">>, <<s, "restore">>}
        PROVE  ~ (call[c].at = "pending" /\ call'[c].at = "committed")
    BY <1>1, ConflictStep
  <1>2. WorkspaceInv /\ [Next]_vars =>
          [\A s \in Sessions :
             (editor[s].status = "conflict" /\ editor[s].rev < Len(log)) =>
                 \A c \in {<<s, "save">>, <<s, "restore">>} :
                     ~ (call[c].at = "pending" /\ call'[c].at = "committed")]_vars
    BY <1>1
  <1> QED  BY <1>2, Invariance, PTL DEF Spec, ConflictStopsTheSession

(* The revision a page sends never goes back, in whichever order its save  *)
(* and its restore are answered: at most one of the two has won, and the   *)
(* winner's answer is ahead of the page (ProjectWorkspace.tsx:382, 735).   *)
THEOREM RevisionsAdvance == Spec => RevisionNeverGoesBack
  <1>1. WorkspaceInv /\ [Next]_vars =>
          [\A s \in Sessions : editor[s].rev <= editor'[s].rev]_vars
    BY RevisionStep
  <1> QED  BY <1>1, Invariance, PTL DEF Spec, RevisionNeverGoesBack

(***************************************************************************)
(* The editor of the page: EditorHistory, for every set of texts and       *)
(* fields and every limit.  The history stays bounded, undo and redo start *)
(* from what is on the screen, and every step of the editor is a step on a *)
(* tape of copies.                                                         *)
(***************************************************************************)
(* Dropping the oldest entry keeps a list within the limit and not empty.  *)
LEMMA TrimmedFacts ==
    ASSUME NEW past \in Seq(WorkingCopies), Len(past) <= limit + 1, past # <<>>
    PROVE  /\ Trimmed(past) \in Seq(WorkingCopies)
           /\ Len(Trimmed(past)) <= limit
           /\ Trimmed(past) # <<>>
  <1>1. Len(past) \in Nat \ {0}
    BY EmptySeq
  <1>2. /\ Tail(past) \in Seq(WorkingCopies)
        /\ Len(Tail(past)) = Len(past) - 1
    BY HeadTailProperties
  <1>3. Len(past) > limit => Len(Tail(past)) # 0
    BY <1>1, <1>2, LimitAssumption
  <1>4. Len(past) > limit => Tail(past) # <<>>
    BY <1>3, EmptySeq
  <1>5. QED
    BY <1>1, <1>2, <1>4, LimitAssumption DEF Trimmed

(* A pushed history is a history within the limit that shows the new copy. *)
LEMMA PushedFacts ==
    ASSUME NEW h \in Histories, NEW x \in WorkingCopies,
           Len(h.past) + Len(h.future) <= limit
    PROVE  LET p == Pushed(h, x)
           IN  /\ p \in Histories
               /\ Len(p.past) + Len(p.future) <= limit
               /\ p.present = x
               /\ p.past = <<>> => p = h
  <1>1. CASE h.present = x
    BY <1>1 DEF Pushed
  <1>2. CASE h.present # x
    <2> DEFINE longer == Append(h.past, h.present)
    <2>1. /\ longer \in Seq(WorkingCopies) /\ longer # <<>>
          /\ Len(longer) = Len(h.past) + 1 /\ Len(h.future) \in Nat
      BY DEF Histories
    <2>2. Len(longer) <= limit + 1
      BY <2>1, LimitAssumption DEF Histories
    <2>3. /\ Trimmed(longer) \in Seq(WorkingCopies)
          /\ Len(Trimmed(longer)) <= limit
          /\ Trimmed(longer) # <<>>
      BY <2>1, <2>2, TrimmedFacts
    <2>4. Pushed(h, x) = [past |-> Trimmed(longer), present |-> x, future |-> <<>>]
      BY <1>2 DEF Pushed
    <2>5. QED
      BY <2>3, <2>4, EmptySeq, LimitAssumption DEF Histories
  <1>3. QED
    BY <1>1, <1>2

(* Undo and redo move one copy from one list to the other.                 *)
LEMMA UndoneFacts ==
    ASSUME NEW h \in Histories, h.past # <<>>
    PROVE  /\ Undone(h) \in Histories
           /\ Len(Undone(h).past) = Len(h.past) - 1
           /\ Len(Undone(h).future) = Len(h.future) + 1
  <1>1. h.past \in Seq(WorkingCopies) /\ h.present \in WorkingCopies /\ h.future \in Seq(WorkingCopies)
    BY DEF Histories
  <1>2. Len(h.past) \in Nat \ {0}
    BY <1>1, EmptySeq
  <1>3. Front(h.past) \in Seq(WorkingCopies) /\ Len(Front(h.past)) = Len(h.past) - 1
    BY <1>1, <1>2, SubSeqProperties, ElementOfSeq DEF Front
  <1>4. Last(h.past) \in WorkingCopies
    BY <1>1, <1>2, ElementOfSeq DEF Last
  <1>5. QED
    BY <1>1, <1>3, <1>4 DEF Undone, Histories

LEMMA RedoneFacts ==
    ASSUME NEW h \in Histories, h.future # <<>>
    PROVE  /\ Redone(h) \in Histories
           /\ Len(Redone(h).past) = Len(h.past) + 1
           /\ Len(Redone(h).future) = Len(h.future) - 1
  <1>1. h.past \in Seq(WorkingCopies) /\ h.present \in WorkingCopies /\ h.future \in Seq(WorkingCopies)
    BY DEF Histories
  <1>2. Len(h.future) \in Nat \ {0}
    BY <1>1, EmptySeq
  <1>3. Front(h.future) \in Seq(WorkingCopies) /\ Len(Front(h.future)) = Len(h.future) - 1
    BY <1>1, <1>2, SubSeqProperties, ElementOfSeq DEF Front
  <1>4. Last(h.future) \in WorkingCopies
    BY <1>1, <1>2, ElementOfSeq DEF Last
  <1>5. QED
    BY <1>1, <1>3, <1>4 DEF Redone, Histories

LEMMA ReplacedFacts ==
    ASSUME NEW x \in WorkingCopies
    PROVE  /\ Replaced(x) \in Histories
           /\ Len(Replaced(x).past) = 0 /\ Len(Replaced(x).future) = 0
  BY EmptySeq DEF Replaced, Histories
(* The tape of a history: its length, and what is where on it.             *)
LEMMA TapeFacts ==
    ASSUME NEW h \in Histories
    PROVE  /\ Tape(h) \in Seq(WorkingCopies)
           /\ Len(Tape(h)) = Len(h.past) + Len(h.future) + 1
           /\ \A i \in 1..Len(h.past) : Tape(h)[i] = h.past[i]
           /\ Tape(h)[Len(h.past) + 1] = h.present
           /\ \A i \in Len(h.past) + 2 .. Len(h.past) + Len(h.future) + 1 :
                  Tape(h)[i] = h.future[Len(h.past) + Len(h.future) + 2 - i]
  <1> DEFINE p == Len(h.past)
             f == Len(h.future)
             front == h.past \o <<h.present>>
             back == Reverse(h.future)
  <1>1. h.past \in Seq(WorkingCopies) /\ h.present \in WorkingCopies /\ h.future \in Seq(WorkingCopies)
    BY DEF Histories
  <1>2. p \in Nat /\ f \in Nat
    BY <1>1
  <1>3. /\ front \in Seq(WorkingCopies) /\ Len(front) = p + 1
        /\ \A i \in 1..p : front[i] = h.past[i]
        /\ front[p + 1] = h.present
    BY <1>1, <1>2
  <1>4. \A i \in 1..f : h.future[(f - i) + 1] \in WorkingCopies
    BY <1>1, <1>2, ElementOfSeq
  <1>5. /\ back \in Seq(WorkingCopies) /\ Len(back) = f
        /\ \A i \in 1..f : back[i] = h.future[(f - i) + 1]
    BY <1>2, <1>4 DEF Reverse
  <1>6. Tape(h) = front \o back
    BY DEF Tape
  <1> HIDE DEF p, f, front, back
  <1>7. /\ front \o back \in Seq(WorkingCopies)
        /\ Len(front \o back) = p + 1 + f
        /\ \A i \in 1 .. p + 1 + f : (front \o back)[i] =
                     IF i <= p + 1 THEN front[i] ELSE back[i - (p + 1)]
    <2>1. front \in Seq(WorkingCopies) /\ back \in Seq(WorkingCopies)
      BY <1>3, <1>5
    <2>2. /\ front \o back \in Seq(WorkingCopies)
          /\ Len(front \o back) = Len(front) + Len(back)
          /\ \A i \in 1 .. Len(front) + Len(back) : (front \o back)[i] =
                     IF i <= Len(front) THEN front[i] ELSE back[i - Len(front)]
      BY <2>1, ConcatProperties, Zenon
    <2>3. Len(front) = p + 1 /\ Len(back) = f
      BY <1>3, <1>5
    <2>4. QED
      BY <2>2, <2>3, Zenon
  <1>8. ASSUME NEW i \in p + 2 .. p + f + 1
        PROVE  (front \o back)[i] = h.future[p + f + 2 - i]
    <2>1. i - (p + 1) \in 1..f /\ i \in 1 .. p + 1 + f /\ ~(i <= p + 1)
      BY <1>2
    <2>2. (f - (i - (p + 1))) + 1 = p + f + 2 - i
      BY <1>2
    <2>3. (front \o back)[i] = back[i - (p + 1)]
      BY <1>7, <2>1
    <2>4. back[i - (p + 1)] = h.future[(f - (i - (p + 1))) + 1]
      BY <1>5, <2>1
    <2>5. QED
      BY <2>2, <2>3, <2>4
  <1>9. \A i \in 1..p : (front \o back)[i] = h.past[i]
    BY <1>2, <1>3, <1>7
  <1>10. (front \o back)[p + 1] = h.present
    BY <1>2, <1>3, <1>7
  <1>11. Len(front \o back) = p + f + 1
    BY <1>2, <1>7
  <1>12. QED
    BY <1>6, <1>7, <1>8, <1>9, <1>10, <1>11 DEF p, f
LEMMA TapeAt ==
    ASSUME NEW h \in Histories, NEW p \in Nat, NEW f \in Nat,
           Len(h.past) = p, Len(h.future) = f
    PROVE  /\ Tape(h) \in Seq(WorkingCopies)
           /\ Len(Tape(h)) = p + f + 1
           /\ \A i \in 1..p : Tape(h)[i] = h.past[i]
           /\ Tape(h)[p + 1] = h.present
           /\ \A i \in p + 2 .. p + f + 1 : Tape(h)[i] = h.future[p + f + 2 - i]
  BY TapeFacts, Zenon

(* Undo leaves the tape and goes one place back.                           *)
LEMMA UndoneTape ==
    ASSUME NEW h \in Histories, h.past # <<>>
    PROVE  Tape(Undone(h)) = Tape(h) /\ Place(Undone(h)) = Place(h) - 1
  <1> DEFINE u == Undone(h)
             p == Len(h.past)
             f == Len(h.future)
  <1>1. /\ h.past \in Seq(WorkingCopies) /\ h.present \in WorkingCopies /\ h.future \in Seq(WorkingCopies)
        /\ p \in Nat \ {0} /\ f \in Nat
    BY EmptySeq DEF Histories
  <1>2. u \in Histories /\ Len(u.past) = p - 1 /\ Len(u.future) = f + 1
    BY UndoneFacts
  <1>3. /\ u.past = SubSeq(h.past, 1, p - 1)
        /\ u.present = h.past[p]
        /\ u.future = Append(h.future, h.present)
    BY DEF Undone, Front, Last
  <1>4. /\ \A i \in 1 .. p - 1 : u.past[i] = h.past[i]
        /\ \A i \in 1..f : u.future[i] = h.future[i]
        /\ u.future[f + 1] = h.present
    BY <1>1, <1>3
  <1>5. /\ Tape(u) \in Seq(WorkingCopies)
        /\ Len(Tape(u)) = p + f + 1
        /\ \A i \in 1 .. p - 1 : Tape(u)[i] = u.past[i]
        /\ Tape(u)[p] = u.present
        /\ \A i \in p + 1 .. p + f + 1 : Tape(u)[i] = u.future[p + f + 2 - i]
    <2> HIDE DEF u, p, f
    <2> DEFINE q == p - 1
               g == f + 1
    <2>1. /\ q \in Nat /\ g \in Nat /\ q + g + 1 = p + f + 1
          /\ q + g + 2 = p + f + 2
      BY <1>1
    <2>2. Len(u.past) = q /\ Len(u.future) = g
      BY <1>2
    <2> HIDE DEF q, g
    <2>3. /\ Tape(u) \in Seq(WorkingCopies)
          /\ Len(Tape(u)) = q + g + 1
          /\ \A i \in 1..q : Tape(u)[i] = u.past[i]
          /\ Tape(u)[q + 1] = u.present
          /\ \A i \in q + 2 .. q + g + 1 : Tape(u)[i] = u.future[q + g + 2 - i]
      BY <1>2, <2>1, <2>2, TapeAt
    <2>4. ASSUME NEW i \in q + 2 .. p + f + 1
          PROVE  Tape(u)[i] = u.future[p + f + 2 - i]
      <3>1. i \in q + 2 .. q + g + 1 /\ q + g + 2 - i = p + f + 2 - i
        BY <1>1, <2>1
      <3>2. Tape(u)[i] = u.future[q + g + 2 - i]
        BY <2>3, <3>1
      <3>3. QED
        BY <3>1, <3>2
    <2>5. q + 1 = p /\ q + 2 = p + 1
      BY <1>1 DEF q
    <2>6. QED
      BY <2>1, <2>3, <2>4, <2>5, Zenon DEF q
  <1>6. /\ Tape(h) \in Seq(WorkingCopies)
        /\ Len(Tape(h)) = p + f + 1
        /\ \A i \in 1..p : Tape(h)[i] = h.past[i]
        /\ Tape(h)[p + 1] = h.present
        /\ \A i \in p + 2 .. p + f + 1 : Tape(h)[i] = h.future[p + f + 2 - i]
    BY TapeFacts
  <1> HIDE DEF u, p, f
  <1>7. ASSUME NEW i \in 1 .. p + f + 1
        PROVE  Tape(u)[i] = Tape(h)[i]
    <2>1. CASE i <= p - 1
      <3>1. i \in 1 .. p - 1 /\ i \in 1..p
        BY <2>1, <1>1
      <3>2. QED
        BY <3>1, <1>4, <1>5, <1>6
    <2>2. CASE i = p
      <3>1. p \in 1..p
        BY <1>1
      <3>2. QED
        BY <3>1, <2>2, <1>3, <1>5, <1>6
    <2>3. CASE i = p + 1
      BY <2>3, <1>1, <1>4, <1>5, <1>6
    <2>4. CASE i >= p + 2
      <3>1. p + f + 2 - i \in 1..f
        BY <2>4, <1>1
      <3>2. i \in p + 1 .. p + f + 1 /\ i \in p + 2 .. p + f + 1
        BY <2>4, <1>1
      <3>3. QED
        BY <3>1, <3>2, <1>4, <1>5, <1>6
    <2>5. QED
      BY <1>1, <2>1, <2>2, <2>3, <2>4
  <1>8. Tape(u) = Tape(h)
    BY <1>5, <1>6, <1>7, SeqEqual
  <1>9. Place(u) = Place(h) - 1
    BY <1>1, <1>2 DEF Place, p
  <1>10. QED
    BY <1>8, <1>9 DEF u

(* Redo leaves the tape and goes one place forward.                        *)
LEMMA RedoneTape ==
    ASSUME NEW h \in Histories, h.future # <<>>
    PROVE  Tape(Redone(h)) = Tape(h) /\ Place(Redone(h)) = Place(h) + 1
  <1> DEFINE u == Redone(h)
             p == Len(h.past)
             f == Len(h.future)
  <1>1. /\ h.past \in Seq(WorkingCopies) /\ h.present \in WorkingCopies /\ h.future \in Seq(WorkingCopies)
        /\ p \in Nat /\ f \in Nat \ {0}
    BY EmptySeq DEF Histories
  <1>2. u \in Histories /\ Len(u.past) = p + 1 /\ Len(u.future) = f - 1
    BY RedoneFacts
  <1>3. /\ u.past = Append(h.past, h.present)
        /\ u.present = h.future[f]
        /\ u.future = SubSeq(h.future, 1, f - 1)
    BY DEF Redone, Front, Last
  <1>4. /\ \A i \in 1..p : u.past[i] = h.past[i]
        /\ u.past[p + 1] = h.present
        /\ \A i \in 1 .. f - 1 : u.future[i] = h.future[i]
    BY <1>1, <1>3
  <1>5. /\ Tape(u) \in Seq(WorkingCopies)
        /\ Len(Tape(u)) = p + f + 1
        /\ \A i \in 1 .. p + 1 : Tape(u)[i] = u.past[i]
        /\ Tape(u)[p + 2] = u.present
        /\ \A i \in p + 3 .. p + f + 1 : Tape(u)[i] = u.future[p + f + 2 - i]
    <2> HIDE DEF u, p, f
    <2> DEFINE q == p + 1
               g == f - 1
    <2>1. /\ q \in Nat /\ g \in Nat /\ q + g + 1 = p + f + 1
          /\ q + g + 2 = p + f + 2
      BY <1>1
    <2>2. Len(u.past) = q /\ Len(u.future) = g
      BY <1>2
    <2> HIDE DEF q, g
    <2>3. /\ Tape(u) \in Seq(WorkingCopies)
          /\ Len(Tape(u)) = q + g + 1
          /\ \A i \in 1..q : Tape(u)[i] = u.past[i]
          /\ Tape(u)[q + 1] = u.present
          /\ \A i \in q + 2 .. q + g + 1 : Tape(u)[i] = u.future[q + g + 2 - i]
      BY <1>2, <2>1, <2>2, TapeAt
    <2>4. ASSUME NEW i \in q + 2 .. p + f + 1
          PROVE  Tape(u)[i] = u.future[p + f + 2 - i]
      <3>1. i \in q + 2 .. q + g + 1 /\ q + g + 2 - i = p + f + 2 - i
        BY <1>1, <2>1
      <3>2. Tape(u)[i] = u.future[q + g + 2 - i]
        BY <2>3, <3>1
      <3>3. QED
        BY <3>1, <3>2
    <2>5. q + 1 = p + 2 /\ q + 2 = p + 3
      BY <1>1 DEF q
    <2>6. QED
      BY <2>1, <2>3, <2>4, <2>5, Zenon DEF q
  <1>6. /\ Tape(h) \in Seq(WorkingCopies)
        /\ Len(Tape(h)) = p + f + 1
        /\ \A i \in 1..p : Tape(h)[i] = h.past[i]
        /\ Tape(h)[p + 1] = h.present
        /\ \A i \in p + 2 .. p + f + 1 : Tape(h)[i] = h.future[p + f + 2 - i]
    BY TapeFacts
  <1> HIDE DEF u, p, f
  <1>7. ASSUME NEW i \in 1 .. p + f + 1
        PROVE  Tape(u)[i] = Tape(h)[i]
    <2>1. CASE i <= p
      BY <2>1, <1>1, <1>4, <1>5, <1>6
    <2>2. CASE i = p + 1
      BY <2>2, <1>1, <1>4, <1>5, <1>6
    <2>3. CASE i = p + 2
      <3>1. p + 2 \in p + 2 .. p + f + 1 /\ p + f + 2 - (p + 2) = f
        BY <1>1
      <3>2. QED
        BY <2>3, <3>1, <1>3, <1>5, <1>6
    <2>4. CASE i >= p + 3
      <3>1. p + f + 2 - i \in 1 .. f - 1
        BY <2>4, <1>1
      <3>2. i \in p + 2 .. p + f + 1 /\ i \in p + 3 .. p + f + 1
        BY <2>4, <1>1
      <3>3. QED
        BY <3>1, <3>2, <1>4, <1>5, <1>6
    <2>5. QED
      BY <1>1, <2>1, <2>2, <2>3, <2>4
  <1>8. Tape(u) = Tape(h)
    BY <1>5, <1>6, <1>7, SeqEqual
  <1>9. Place(u) = Place(h) + 1
    BY <1>1, <1>2 DEF Place, p
  <1>10. QED
    BY <1>8, <1>9 DEF u
(* A push writes after the place, forgets what was ahead and, beyond the   *)
(* limit, the oldest copy; the place is at the end.                        *)
LEMMA PushedTape ==
    ASSUME NEW h \in Histories, NEW x \in WorkingCopies, h.present # x
    PROVE  LET w == Append(SubSeq(Tape(h), 1, Place(h)), x)
               kept == IF Len(w) > limit + 1 THEN Tail(w) ELSE w
           IN  /\ Tape(Pushed(h, x)) = kept
               /\ Place(Pushed(h, x)) = Len(kept)
               /\ Len(kept) >= 2
  <1> DEFINE w == Append(SubSeq(Tape(h), 1, Place(h)), x)
             kept == IF Len(w) > limit + 1 THEN Tail(w) ELSE w
             longer == Append(h.past, h.present)
             past == Trimmed(longer)
             u == Pushed(h, x)
             p == Len(h.past)
             n == Len(past)
  <1>1. /\ h.past \in Seq(WorkingCopies) /\ h.present \in WorkingCopies /\ h.future \in Seq(WorkingCopies)
        /\ p \in Nat /\ Len(h.future) \in Nat
    BY DEF Histories
  <1>2. /\ longer \in Seq(WorkingCopies) /\ Len(longer) = p + 1 /\ longer # <<>>
        /\ \A i \in 1..p : longer[i] = h.past[i]
        /\ longer[p + 1] = h.present
    BY <1>1
  <1>3. /\ Tail(longer) \in Seq(WorkingCopies) /\ Len(Tail(longer)) = p
        /\ \A i \in 1..p : Tail(longer)[i] = longer[i + 1]
    <2>1. Len(longer) - 1 = p
      BY <1>1, <1>2
    <2>2. QED
      BY <1>2, <2>1, HeadTailProperties
  <1>4. u = [past |-> past, present |-> x, future |-> <<>>]
    BY DEF Pushed
  <1>5. past = IF p + 1 > limit THEN Tail(longer) ELSE longer
    BY <1>2 DEF Trimmed
  <1>6. past \in Seq(WorkingCopies) /\ n \in Nat
    BY <1>2, <1>3, <1>5
  <1>7. /\ Tape(h) \in Seq(WorkingCopies)
        /\ Len(Tape(h)) = p + Len(h.future) + 1
        /\ \A i \in 1..p : Tape(h)[i] = h.past[i]
        /\ Tape(h)[p + 1] = h.present
    BY TapeFacts
  <1>8. Place(h) = p + 1
    BY DEF Place
  <1>9. SubSeq(Tape(h), 1, p + 1) = longer
    <2> DEFINE s == SubSeq(Tape(h), 1, p + 1)
    <2> HIDE DEF p, longer
    <2>1. 1 .. p + 1 \subseteq 1..Len(Tape(h))
      BY <1>1, <1>7
    <2>2. /\ s \in Seq(WorkingCopies) /\ Len(s) = p + 1
          /\ \A i \in 1 .. p + 1 : s[i] = Tape(h)[i]
      <3>1. \A i \in 1 .. p + 1 : Tape(h)[i] \in WorkingCopies
        BY <1>7, <2>1, ElementOfSeq
      <3>2. /\ s \in Seq(WorkingCopies)
            /\ Len(s) = IF 1 <= p + 1 THEN (p + 1) - 1 + 1 ELSE 0
            /\ \A i \in 1 .. (p + 1) - 1 + 1 : s[i] = Tape(h)[1 + i - 1]
        BY <1>1, <3>1, SubSeqProperties
      <3>3. QED
        BY <1>1, <3>2
    <2> HIDE DEF s
    <2>3. ASSUME NEW i \in 1 .. p + 1
          PROVE  s[i] = longer[i]
      <3>1. i \in 1..p \/ i = p + 1
        BY <1>1
      <3>2. QED
        BY <3>1, <2>2, <1>2, <1>7
    <2>4. s = longer
      BY <1>2, <2>2, <2>3, SeqEqual
    <2>5. QED
      BY <2>4 DEF s
  <1>10. w = Append(longer, x)
    BY <1>8, <1>9
  <1>11. /\ w \in Seq(WorkingCopies) /\ Len(w) = p + 2 /\ w # <<>>
         /\ \A i \in 1 .. p + 1 : w[i] = longer[i]
         /\ w[p + 2] = x
    <2> HIDE DEF longer, p, w
    <2>1. QED
      BY <1>1, <1>2, <1>10
  <1>12. /\ Tail(w) \in Seq(WorkingCopies) /\ Len(Tail(w)) = p + 1
         /\ \A i \in 1 .. p + 1 : Tail(w)[i] = w[i + 1]
    <2>1. Len(w) - 1 = p + 1
      BY <1>1, <1>11
    <2> HIDE DEF w
    <2>2. QED
      BY <1>11, <2>1, HeadTailProperties
  <1>13. u \in Histories /\ u.past = past /\ u.present = x /\ Len(u.future) = 0
    <2>1. u \in Histories
      BY <1>4, <1>6, EmptySeq DEF Histories
    <2>2. QED
      BY <2>1, <1>4
  <1>14. /\ Tape(u) \in Seq(WorkingCopies) /\ Len(Tape(u)) = n + 1
         /\ \A i \in 1..n : Tape(u)[i] = past[i]
         /\ Tape(u)[n + 1] = x
    <2>1. n + 0 + 1 = n + 1
      BY <1>6
    <2> HIDE DEF u, n, past
    <2>2. Len(u.past) = n
      BY <1>13 DEF n
    <2>3. /\ Tape(u) \in Seq(WorkingCopies) /\ Len(Tape(u)) = n + 0 + 1
          /\ \A i \in 1..n : Tape(u)[i] = u.past[i]
          /\ Tape(u)[n + 1] = u.present
      BY <1>6, <1>13, <2>2, TapeAt
    <2>4. QED
      BY <1>13, <2>1, <2>3
  <1> HIDE DEF w, longer, past, u, p, n
  <1>15. CASE p + 1 > limit
    <2>1. past = Tail(longer) /\ n = p /\ kept = Tail(w)
      BY <1>15, <1>1, <1>3, <1>5, <1>11, LimitAssumption DEF n
    <2>2. ASSUME NEW i \in 1 .. p + 1
          PROVE  Tape(u)[i] = Tail(w)[i]
      <3>1. CASE i \in 1..p
        <4>1. i + 1 \in 1 .. p + 1
          BY <3>1, <1>1
        <4>2. QED
          <5>1. i \in 1..n /\ i \in 1 .. p + 1
            BY <3>1, <2>1, <1>1
          <5>2. Tape(u)[i] = longer[i + 1]
            BY <3>1, <5>1, <2>1, <1>3, <1>14
          <5>3. Tail(w)[i] = longer[i + 1]
            BY <4>1, <5>1, <1>11, <1>12
          <5>4. QED
            BY <5>2, <5>3
      <3>2. CASE i = p + 1
        <4>1. (p + 1) + 1 = p + 2 /\ p + 1 \in 1 .. p + 1
          BY <1>1
        <4>2. QED
          <5>1. Tail(w)[p + 1] = w[(p + 1) + 1]
            BY <4>1, <1>12
          <5>2. QED
            <6>1. Tape(u)[p + 1] = x
              BY <2>1, <1>14
            <6>2. Tail(w)[p + 1] = x
              BY <4>1, <5>1, <1>11
            <6>3. QED
              BY <3>2, <6>1, <6>2
      <3>3. i \in 1..p \/ i = p + 1
        BY <1>1
      <3>4. QED
        BY <3>1, <3>2, <3>3
    <2>3. Tape(u) = Tail(w)
      BY <2>1, <2>2, <1>12, <1>14, SeqEqual
    <2>4. Place(u) = p + 1
      BY <2>1, <1>13 DEF Place, n
    <2>5. p + 1 >= 2
      BY <1>15, <1>1, LimitAssumption
    <2>6. QED
      BY <2>1, <2>3, <2>4, <2>5, <1>12 DEF w, u
  <1>16. CASE ~(p + 1 > limit)
    <2>1. past = longer /\ n = p + 1 /\ kept = w
      BY <1>16, <1>1, <1>2, <1>5, <1>11, LimitAssumption DEF n
    <2>2. ASSUME NEW i \in 1 .. p + 2
          PROVE  Tape(u)[i] = w[i]
      <3>1. CASE i \in 1 .. p + 1
        BY <3>1, <2>1, <1>11, <1>14
      <3>2. CASE i = p + 2
        <4>1. (p + 1) + 1 = p + 2
          BY <1>1
        <4>2. QED
          BY <3>2, <4>1, <2>1, <1>11, <1>14
      <3>3. i \in 1 .. p + 1 \/ i = p + 2
        BY <1>1
      <3>4. QED
        BY <3>1, <3>2, <3>3
    <2>3. Len(Tape(u)) = p + 2
      BY <2>1, <1>1, <1>14
    <2>4. Tape(u) = w
      BY <2>2, <2>3, <1>11, <1>14, SeqEqual
    <2>5. Place(u) = p + 2
      BY <2>1, <1>1, <1>13 DEF Place, n
    <2>6. p + 2 >= 2
      BY <1>1
    <2>7. QED
      BY <2>1, <2>4, <2>5, <2>6, <1>11 DEF w, u
  <1>17. QED
    BY <1>15, <1>16

(* After a restore there is one copy on the tape.                          *)
LEMMA ReplacedTape ==
    ASSUME NEW x \in WorkingCopies
    PROVE  Tape(Replaced(x)) = <<x>> /\ Place(Replaced(x)) = 1
  <1> DEFINE h == Replaced(x)
  <1>1. h \in Histories /\ h.present = x /\ Len(h.past) = 0 /\ Len(h.future) = 0
    BY ReplacedFacts DEF Replaced
  <1> HIDE DEF h
  <1>2. /\ Tape(h) \in Seq(WorkingCopies) /\ Len(Tape(h)) = 0 + 0 + 1
        /\ Tape(h)[0 + 1] = x
    BY <1>1, TapeFacts, Zenon
  <1>3. Tape(h) = <<x>>
    BY <1>2
  <1>4. Place(h) = 1
    BY <1>1 DEF Place
  <1>5. QED
    BY <1>3, <1>4 DEF h
----
(* What the history is at any time, and what the screen shows: the         *)
(* inductive invariant.                                                    *)
EditorInv == EditorTypeOK /\ ScreenIsPresent

LEMMA EditorStarts == EditorInit => EditorInv
  <1> SUFFICES ASSUME EditorInit PROVE EditorInv
    OBVIOUS
  <1>1. history \in Histories /\ Len(history.past) = 0 /\ Len(history.future) = 0
    BY EmptySeq DEF EditorInit, Histories
  <1>2. EditorTypeOK
    <2>1. Bounded
      BY <1>1, LimitAssumption DEF Bounded
    <2>2. captured \in Seq(WorkingCopies) /\ Len(captured) = 0 /\ group = "none"
      BY EmptySeq DEF EditorInit
    <2>3. QED
      BY <1>1, <2>1, <2>2 DEF EditorInit, EditorTypeOK
  <1>3. ScreenIsPresent
    BY DEF EditorInit, ScreenIsPresent
  <1>4. QED
    BY <1>2, <1>3 DEF EditorInv
(* What undo starts from: the history after the open group is pushed.      *)
LEMMA BeforeUndoFacts ==
    ASSUME EditorInv
    PROVE  /\ BeforeUndo \in Histories
           /\ Len(BeforeUndo.past) + Len(BeforeUndo.future) <= limit
           /\ group # "none" => BeforeUndo.present = working
           /\ group = "none" => BeforeUndo = history
           /\ BeforeUndo.past = <<>> => BeforeUndo = history
  <1>1. /\ history \in Histories /\ working \in WorkingCopies
        /\ Len(history.past) + Len(history.future) <= limit
    BY DEF EditorInv, EditorTypeOK, Bounded
  <1>2. /\ Pushed(history, working) \in Histories
        /\ Len(Pushed(history, working).past) + Len(Pushed(history, working).future) <= limit
        /\ Pushed(history, working).present = working
        /\ Pushed(history, working).past = <<>> => Pushed(history, working) = history
    BY <1>1, PushedFacts
  <1>3. QED
    BY <1>1, <1>2 DEF BeforeUndo

(* Every step of the editor keeps the invariant.                           *)
LEMMA EditorStep == EditorInv /\ [EditorNext]_editorVars => EditorInv'
  <1> SUFFICES ASSUME EditorInv, [EditorNext]_editorVars PROVE EditorInv'
    OBVIOUS
  <1>1. /\ history \in Histories /\ working \in WorkingCopies /\ saved \in WorkingCopies
        /\ Len(history.past) + Len(history.future) <= limit
        /\ group \in {"none", "open", "pending"}
        /\ captured \in Seq(WorkingCopies)
        /\ Len(captured) = IF group = "pending" THEN 1 ELSE 0
        /\ restoring \in BOOLEAN /\ overtaken \in BOOLEAN
        /\ ~overtaken => working.text = IF group = "pending" THEN captured[1].text
                                        ELSE history.present.text
    BY DEF EditorInv, EditorTypeOK, Bounded, ScreenIsPresent
  <1>2. ASSUME commitEdit PROVE EditorInv'
    <2>1. PICK next \in WorkingCopies :
            /\ working' = next
            /\ \/ /\ group = "none"
                  /\ history' = Pushed(history, next)
                  /\ group' = "open" /\ UNCHANGED captured
               \/ /\ group # "none"
                  /\ group' = "pending" /\ captured' = <<next>>
                  /\ UNCHANGED history
            /\ UNCHANGED <<saved, restoring, overtaken>>
      BY <1>2 DEF commitEdit
    <2>2. /\ Pushed(history, next) \in Histories
          /\ Len(Pushed(history, next).past) + Len(Pushed(history, next).future) <= limit
          /\ Pushed(history, next).present = next
      BY <1>1, PushedFacts
    <2>3. <<next>> \in Seq(WorkingCopies) /\ Len(<<next>>) = 1 /\ <<next>>[1] = next
      OBVIOUS
    <2>4. EditorTypeOK'
      BY <1>1, <2>1, <2>2, <2>3 DEF EditorTypeOK, Bounded
    <2>5. ScreenIsPresent'
      BY <2>1, <2>2, <2>3 DEF ScreenIsPresent
    <2>6. QED
      BY <2>4, <2>5 DEF EditorInv
  <1>3. ASSUME typingGroupEnds PROVE EditorInv'
    <2>1. group = "pending" => captured[1] \in WorkingCopies
      BY <1>1, ElementOfSeq
    <2>2. group = "pending" =>
            /\ Pushed(history, captured[1]) \in Histories
            /\ Len(Pushed(history, captured[1]).past)
                 + Len(Pushed(history, captured[1]).future) <= limit
            /\ Pushed(history, captured[1]).present = captured[1]
      BY <1>1, <2>1, PushedFacts
    <2>3. EditorTypeOK'
      BY <1>1, <1>3, <2>2, EmptySeq DEF typingGroupEnds, EditorTypeOK, Bounded
    <2>4. ScreenIsPresent'
      BY <1>1, <1>3, <2>2 DEF typingGroupEnds, ScreenIsPresent
    <2>5. QED
      BY <2>3, <2>4 DEF EditorInv
  <1>4. ASSUME undo PROVE EditorInv'
    <2>1. /\ BeforeUndo \in Histories
          /\ Len(BeforeUndo.past) + Len(BeforeUndo.future) <= limit
          /\ group # "none" => BeforeUndo.present = working
          /\ group = "none" => BeforeUndo = history
      BY BeforeUndoFacts
    <2>2. BeforeUndo.past # <<>> =>
            /\ Undone(BeforeUndo) \in Histories
            /\ Len(Undone(BeforeUndo).past) = Len(BeforeUndo.past) - 1
            /\ Len(Undone(BeforeUndo).future) = Len(BeforeUndo.future) + 1
      BY <2>1, UndoneFacts
    <2>3. Len(BeforeUndo.past) \in Nat /\ Len(BeforeUndo.future) \in Nat
      BY <2>1 DEF Histories
    <2>4. history' \in Histories /\ Len(history'.past) + Len(history'.future) <= limit
      <3>1. \A m, n \in Nat : (m - 1) + (n + 1) = m + n
        OBVIOUS
      <3>2. BeforeUndo.past # <<>> =>
              Len(Undone(BeforeUndo).past) + Len(Undone(BeforeUndo).future)
                = Len(BeforeUndo.past) + Len(BeforeUndo.future)
        BY <2>2, <2>3, <3>1
      <3>3. history' = IF BeforeUndo.past # <<>> THEN Undone(BeforeUndo) ELSE BeforeUndo
        BY <1>4 DEF undo
      <3>4. QED
        BY <2>1, <2>2, <3>2, <3>3
    <2>5. history'.present \in WorkingCopies
      BY <2>4 DEF Histories
    <2>6. working' \in WorkingCopies /\ group' = "none" /\ captured' = <<>>
          /\ UNCHANGED <<saved, restoring, overtaken>>
      BY <1>1, <1>4, <2>5 DEF undo, EndGroup
    <2>7. EditorTypeOK'
      BY <1>1, <2>4, <2>6, EmptySeq DEF EditorTypeOK, Bounded
    <2>8. ~overtaken => working'.text = history'.present.text
      BY <1>1, <1>4, <2>1 DEF undo
    <2>9. ScreenIsPresent'
      BY <2>6, <2>8 DEF ScreenIsPresent
    <2>10. QED
      BY <2>7, <2>9 DEF EditorInv
  <1>5. ASSUME redo PROVE EditorInv'
    <2>1. /\ Redone(history) \in Histories
          /\ Len(Redone(history).past) = Len(history.past) + 1
          /\ Len(Redone(history).future) = Len(history.future) - 1
      BY <1>1, <1>5, RedoneFacts DEF redo
    <2>2. Len(history.past) \in Nat /\ Len(history.future) \in Nat
      BY <1>1 DEF Histories
    <2>3. history' \in Histories /\ Len(history'.past) + Len(history'.future) <= limit
      <3>1. \A m, n \in Nat : (m + 1) + (n - 1) = m + n
        OBVIOUS
      <3>2. Len(Redone(history).past) + Len(Redone(history).future)
              = Len(history.past) + Len(history.future)
        BY <2>1, <2>2, <3>1
      <3>3. history' = Redone(history)
        BY <1>5 DEF redo
      <3>4. QED
        BY <1>1, <2>1, <3>2, <3>3
    <2>4. working' \in WorkingCopies
      BY <1>5, <2>3 DEF redo, Histories
    <2>5. EditorTypeOK'
      BY <1>1, <1>5, <2>3, <2>4 DEF redo, EditorTypeOK, Bounded
    <2>6. ScreenIsPresent'
      BY <1>5 DEF redo, ScreenIsPresent
    <2>7. QED
      BY <2>5, <2>6 DEF EditorInv
  <1>6. ASSUME autosaved PROVE EditorInv'
    BY <1>1, <1>6 DEF autosaved, EditorInv, EditorTypeOK, Bounded, ScreenIsPresent
  <1>7. ASSUME restoreSent PROVE EditorInv'
    BY <1>1, <1>7 DEF restoreSent, EditorInv, EditorTypeOK, Bounded, ScreenIsPresent
  <1>8. ASSUME restoreReplaces PROVE EditorInv'
    <2>1. PICK copy \in WorkingCopies :
            /\ history' = Replaced(copy) /\ working' = copy /\ saved' = copy
            /\ restoring' = FALSE
            /\ overtaken' = (overtaken \/ group = "pending")
            /\ UNCHANGED <<group, captured>>
      BY <1>1, <1>8 DEF restoreReplaces, WorkingCopies
    <2>2. history' \in Histories /\ Len(history'.past) = 0 /\ Len(history'.future) = 0
      BY <2>1, ReplacedFacts
    <2>3. history'.present = copy
      BY <2>1 DEF Replaced
    <2>4. Bounded'
      BY <2>2, LimitAssumption DEF Bounded
    <2>5. EditorTypeOK'
      BY <1>1, <2>1, <2>2, <2>4 DEF EditorTypeOK
    <2>6. ScreenIsPresent'
      BY <2>1, <2>3 DEF ScreenIsPresent
    <2>7. QED
      BY <2>5, <2>6 DEF EditorInv
  <1>9. ASSUME restoreRefused PROVE EditorInv'
    BY <1>1, <1>9 DEF restoreRefused, EditorInv, EditorTypeOK, Bounded, ScreenIsPresent
  <1>10. ASSUME syncWorkflowMutableControlFields PROVE EditorInv'
    <2>1. /\ working' \in WorkingCopies /\ saved' \in WorkingCopies /\ working'.text = working.text
          /\ UNCHANGED <<history, group, captured, restoring, overtaken>>
      BY <1>1, <1>10 DEF syncWorkflowMutableControlFields, WorkingCopies
    <2>2. QED
      BY <1>1, <2>1 DEF EditorInv, EditorTypeOK, Bounded, ScreenIsPresent
  <1>11. ASSUME UNCHANGED editorVars PROVE EditorInv'
    BY <1>1, <1>11 DEF editorVars, EditorInv, EditorTypeOK, Bounded, ScreenIsPresent
  <1>12. QED
    BY <1>2, <1>3, <1>4, <1>5, <1>6, <1>7, <1>8, <1>9, <1>10, <1>11 DEF EditorNext

LEMMA EditorInvariance == EditorSpec => []EditorInv
  BY EditorStarts, EditorStep, PTL DEF EditorSpec

(* Every step of the editor is a step on the tape, or leaves it as it is.  *)
LEMMA TapeStep ==
    ASSUME EditorInv, [EditorNext]_editorVars
    PROVE  [Abstract!Next]_<<Tape(history), Place(history)>>
  <1> DEFINE AbstractStep == [Abstract!Next]_<<Tape(history), Place(history)>>
  <1>1. /\ history \in Histories /\ working \in WorkingCopies /\ saved \in WorkingCopies
        /\ captured \in Seq(WorkingCopies)
        /\ Len(captured) = IF group = "pending" THEN 1 ELSE 0
    BY DEF EditorInv, EditorTypeOK
  <1>2. Tape(history)[Place(history)] = history.present
    BY <1>1, TapeFacts DEF Place
  <1>3. Len(history.past) \in Nat /\ Len(history.future) \in Nat
        /\ Len(Tape(history)) = Len(history.past) + Len(history.future) + 1
    <2>1. Len(history.past) \in Nat /\ Len(history.future) \in Nat
      BY <1>1 DEF Histories
    <2>2. QED
      BY <1>1, <2>1, TapeFacts
  <1>4. ASSUME NEW x \in WorkingCopies, history' = Pushed(history, x) PROVE AbstractStep
    <2>1. CASE x = history.present
      BY <1>4, <2>1 DEF Pushed
    <2>2. CASE x # history.present
      <3>1. Abstract!Write(x)
        BY <1>1, <1>2, <1>4, <2>2, PushedTape
           DEF Abstract!Write, Abstract!Written, Abstract!Kept
      <3>2. QED
        BY <3>1 DEF Abstract!Next
    <2>3. QED
      BY <2>1, <2>2
  <1>5. ASSUME UNCHANGED history PROVE AbstractStep
    BY <1>5
  <1>6. ASSUME commitEdit PROVE AbstractStep
    BY <1>4, <1>5, <1>6 DEF commitEdit
  <1>7. ASSUME typingGroupEnds PROVE AbstractStep
    <2>1. group = "pending" => captured[1] \in WorkingCopies
      BY <1>1, ElementOfSeq
    <2>2. QED
      BY <1>4, <1>5, <1>7, <2>1 DEF typingGroupEnds
  <1>8. ASSUME undo PROVE AbstractStep
    <2>1. /\ BeforeUndo \in Histories
          /\ BeforeUndo.past = <<>> => BeforeUndo = history
      BY BeforeUndoFacts
    <2>2. CASE BeforeUndo.past = <<>>
      BY <1>5, <1>8, <2>1, <2>2 DEF undo
    <2>3. CASE BeforeUndo.past # <<>>
      <3>1. history' = Undone(BeforeUndo)
        BY <1>8, <2>3 DEF undo
      <3>2. /\ Tape(history') = Tape(BeforeUndo)
            /\ Place(history') = Place(BeforeUndo) - 1
        BY <2>1, <2>3, <3>1, UndoneTape
      <3>3. CASE BeforeUndo = history
        <4>1. Len(history.past) \in Nat \ {0}
          BY <1>1, <2>3, <3>3, EmptySeq DEF Histories
        <4>2. Place(history) > 1
          BY <4>1 DEF Place
        <4>3. Abstract!Back
          BY <3>2, <3>3, <4>2 DEF Abstract!Back
        <4>4. QED
          BY <4>3 DEF Abstract!Next
      <3>4. CASE BeforeUndo # history
        <4>1. BeforeUndo = Pushed(history, working) /\ working # history.present
          BY <3>4 DEF BeforeUndo, Pushed
        <4>2. Abstract!WriteBack(working)
          BY <1>1, <1>2, <3>2, <4>1, PushedTape
             DEF Abstract!WriteBack, Abstract!Written, Abstract!Kept
        <4>3. QED
          BY <1>1, <4>2 DEF Abstract!Next
      <3>5. QED
        BY <3>3, <3>4
    <2>4. QED
      BY <2>2, <2>3
  <1>9. ASSUME redo PROVE AbstractStep
    <2>1. /\ Tape(history') = Tape(history)
          /\ Place(history') = Place(history) + 1
      BY <1>1, <1>9, RedoneTape DEF redo
    <2>2. Len(history.future) \in Nat \ {0}
      BY <1>1, <1>9, EmptySeq DEF redo, Histories
    <2>3. Place(history) < Len(Tape(history))
      <3>1. \A m \in Nat, n \in Nat \ {0} : m + 1 < m + n + 1
        OBVIOUS
      <3>2. QED
        BY <1>3, <2>2, <3>1 DEF Place
    <2>4. Abstract!Forward
      BY <2>1, <2>3 DEF Abstract!Forward
    <2>5. QED
      BY <2>4 DEF Abstract!Next
  <1>10. ASSUME restoreReplaces PROVE AbstractStep
    <2>1. PICK copy \in WorkingCopies : history' = Replaced(copy)
      BY <1>1, <1>10 DEF restoreReplaces, WorkingCopies
    <2>2. Abstract!Reset(copy)
      BY <2>1, ReplacedTape DEF Abstract!Reset
    <2>3. QED
      BY <2>2 DEF Abstract!Next
  <1>11. ASSUME autosaved \/ restoreSent \/ restoreRefused
                  \/ syncWorkflowMutableControlFields \/ UNCHANGED editorVars
         PROVE  AbstractStep
    BY <1>5, <1>11 DEF autosaved, restoreSent, restoreRefused,
                       syncWorkflowMutableControlFields, editorVars
  <1>12. QED
    BY <1>6, <1>7, <1>8, <1>9, <1>10, <1>11 DEF EditorNext

(* Every reachable state is well typed, and past and future together never *)
(* exceed the limit (history.ts:113).                                      *)
THEOREM HistoryIsBounded == EditorSpec => []EditorTypeOK
  <1>1. EditorInv => EditorTypeOK
    BY DEF EditorInv
  <1>2. QED
    BY <1>1, EditorInvariance, PTL

(* Undo and redo start from what is on the screen, unless a restore or a   *)
(* redo overtook a pending timer (ProjectWorkspace.tsx:486, 605).          *)
THEOREM ScreenStaysPresent == EditorSpec => []ScreenIsPresent
  <1>1. EditorInv => ScreenIsPresent
    BY DEF EditorInv
  <1>2. QED
    BY <1>1, EditorInvariance, PTL
(* The editor implements the tape: redo gives back exactly what undo took, *)
(* and undo what was pushed, for every limit (history.ts:108, 127, 137).   *)
THEOREM EditorRefinesUndoStack == EditorSpec => ImplementsUndoStack
  <1>1. EditorInit => Abstract!Init
    <2> SUFFICES ASSUME EditorInit PROVE Abstract!Init
      OBVIOUS
    <2>1. working \in WorkingCopies /\ history = Replaced(working)
      BY DEF EditorInit, Replaced
    <2>2. Tape(history) = <<working>> /\ Place(history) = 1
      BY <2>1, ReplacedTape
    <2>3. <<working>> \in [{1} -> WorkingCopies]
      BY <2>1
    <2>4. QED
      BY <2>2, <2>3 DEF Abstract!Init
  <1>2. EditorInv /\ [EditorNext]_editorVars => [Abstract!Next]_<<Tape(history), Place(history)>>
    BY TapeStep
  <1>3. QED
    BY <1>1, <1>2, EditorInvariance, PTL DEF EditorSpec, ImplementsUndoStack, Abstract!Spec

(***************************************************************************)
(* The parameter panel of the page: Parameters, for every framework that   *)
(* satisfies the assumption on the catalogs.  What a record holds is       *)
(* inductive; what the SSP says of the records is a fact about the two     *)
(* walks over the catalog, true of all typed states: the walk of the       *)
(* statement is a recursive function, and SetInduction is the induction it *)
(* needs.                                                                  *)
(***************************************************************************)
(* Induction for a set: the library's induction theorem is about a         *)
(* predicate, which the provers cannot be given.                           *)
LEMMA SetInduction ==
    ASSUME NEW T, 0 \in T, \A n \in Nat : n \in T => n + 1 \in T
    PROVE  Nat \subseteq T
  <1> DEFINE R == OpToRel(<, Nat)
             U == Nat \ T
  <1>1. IsWellFoundedOn(R, Nat)
    BY NatLessThanWellFounded
  <1>2. \A x, y \in Nat : <<x, y>> \in R <=> x < y
    BY DEF OpToRel
  <1>3. SUFFICES ASSUME U # {} PROVE FALSE
    OBVIOUS
  <1> HIDE DEF R
  <1>4. U \subseteq Nat
    OBVIOUS
  <1>5. PICK x \in U : \A y \in U : <<y, x>> \notin R
    <2> HIDE DEF U
    <2>1. QED BY <1>1, <1>3, <1>4, WFMin
  <1>6. \A y \in U : ~(y < x)
    BY <1>2, <1>5
  <1>7. x # 0 /\ x \in Nat /\ x - 1 \in Nat /\ x - 1 < x
    BY <1>5
  <1>8. x - 1 \in T
    BY <1>6, <1>7
  <1>9. QED BY <1>5, <1>7, <1>8
----
(* The walk of the statement.                                              *)

Steps == 0 .. Cardinality(Params)

(* A round of insertions, and the function of what n rounds reach.         *)
Round(f, e, s) == s \cup UNION {Below(f, e, p) : p \in s}

Reaches(f, e, g) ==
    g = [n \in Steps |-> IF n = 0 THEN f.inserts ELSE Round(f, e, g[n - 1])]

LEMMA RoundByRound ==
    ASSUME NEW f, NEW e, NEW g, Reaches(f, e, g), NEW n \in Steps
    PROVE  g[n] = IF n = 0 THEN f.inserts ELSE Round(f, e, g[n - 1])
  BY Zenon DEF Reaches

LEMMA VisitedIsReached ==
    ASSUME NEW f, NEW rs
    PROVE  Visited(f, rs) = (CHOOSE g : Reaches(f, Resolved(f, rs), g))[Cardinality(Params)]
  BY DEF Visited, Reaches, Round, Steps

LEMMA ParamsAreCounted ==
    ASSUME ParametersAssumption
    PROVE  Cardinality(Params) \in Nat
  BY FS_CardinalityType DEF ParametersAssumption

(* The walk never leaves a set that insertions do not lead out of.         *)
LEMMA WalkStays ==
    ASSUME ParametersAssumption, NEW f, NEW e, NEW g, Reaches(f, e, g),
           NEW C, f.inserts \subseteq C, \A p \in C : Below(f, e, p) \subseteq C
    PROVE  \A n \in Steps : g[n] \subseteq C
  <1> DEFINE T == {n \in Nat : n \in Steps => g[n] \subseteq C}
  <1>1. Cardinality(Params) \in Nat
    BY ParamsAreCounted
  <1>2. 0 \in T
    BY <1>1 DEF Reaches, Steps
  <1>3. ASSUME NEW n \in Nat, n \in T, n + 1 \in Steps
        PROVE  g[n + 1] \subseteq C
    <2>1. n \in Steps /\ g[n] \subseteq C
      BY <1>1, <1>3 DEF Steps
    <2>2. n + 1 # 0 /\ (n + 1) - 1 = n
      OBVIOUS
    <2>3. g[n + 1] = Round(f, e, g[n])
      <3>1. g[n + 1] = IF n + 1 = 0 THEN f.inserts ELSE Round(f, e, g[(n + 1) - 1])
        BY <1>3, RoundByRound
      <3>2. QED BY <2>2, <3>1, Zenon
    <2>4. QED BY <2>1, <2>3 DEF Round
  <1>4. \A n \in Nat : n \in T => n + 1 \in T
    BY <1>3
  <1>5. Nat \subseteq T
    <2> HIDE DEF T
    <2>1. QED BY <1>2, <1>4, SetInduction
  <1>6. \A n \in Steps : n \in Nat
    BY <1>1 DEF Steps
  <1>7. \A n \in Nat : n \in T
    <2> HIDE DEF T
    <2>1. QED BY <1>5
  <1>8. QED BY <1>6, <1>7

(* The walk exists: the recursion defines a function.                      *)
LEMMA WalkExists ==
    ASSUME ParametersAssumption, NEW f, NEW e
    PROVE  \E g : Reaches(f, e, g)
  <1> DEFINE N == Cardinality(Params)
             Upto(m, g) == /\ DOMAIN g = 0..m /\ g = [n \in 0..m |-> g[n]]
                           /\ g[0] = f.inserts
                           /\ \A n \in 1..m : g[n] = Round(f, e, g[n - 1])
             T == {m \in Nat : \E g : Upto(m, g)}
  <1>1. N \in Nat
    BY ParamsAreCounted
  <1> HIDE DEF N
  <1>2. 0 \in T
    <2>1. Upto(0, [n \in 0..0 |-> f.inserts])
      OBVIOUS
    <2>2. QED BY <2>1
  <1>3. ASSUME NEW m \in Nat, NEW g, Upto(m, g)
        PROVE  \E h : Upto(m + 1, h)
    <2> DEFINE h == [n \in 0..(m + 1) |-> IF n = m + 1 THEN Round(f, e, g[m]) ELSE g[n]]
    <2>1. DOMAIN h = 0..(m + 1) /\ h = [n \in 0..(m + 1) |-> h[n]]
      OBVIOUS
    <2>2. \A n \in 0..m : h[n] = g[n]
      OBVIOUS
    <2>3. h[m + 1] = Round(f, e, g[m])
      OBVIOUS
    <2> HIDE DEF h
    <2>4. h[0] = f.inserts
      BY <1>3, <2>2
    <2>5. ASSUME NEW n \in 1..(m + 1) PROVE h[n] = Round(f, e, h[n - 1])
      <3>1. CASE n = m + 1
        BY <2>2, <2>3, <3>1
      <3>2. CASE n # m + 1
        <4>1. n \in 1..m /\ n \in 0..m /\ n - 1 \in 0..m
          BY <3>2
        <4>2. g[n] = Round(f, e, g[n - 1]) /\ h[n] = g[n] /\ h[n - 1] = g[n - 1]
          BY <1>3, <2>2, <4>1, Zenon
        <4>3. QED BY <4>2, Zenon
      <3>3. QED BY <3>1, <3>2
    <2>6. Upto(m + 1, h)
      BY <2>1, <2>4, <2>5
    <2>7. QED BY <2>6
  <1>4. Nat \subseteq T
    <2>1. \A m \in Nat : m \in T => m + 1 \in T
      <3> HIDE DEF Upto
      <3>1. QED BY <1>3
    <2> HIDE DEF T
    <2>2. QED BY <1>2, <2>1, SetInduction
  <1>5. PICK g : Upto(N, g)
    BY <1>1, <1>4
  <1>6. Reaches(f, e, g)
    <2>1. \A n \in Steps : g[n] = IF n = 0 THEN f.inserts ELSE Round(f, e, g[n - 1])
      <3>1. ASSUME NEW n \in 1..N PROVE g[n] = Round(f, e, g[n - 1])
        BY <1>5
      <3>2. g[0] = f.inserts
        BY <1>5
      <3>3. \A n \in Steps : n = 0 \/ n \in 1..N
        BY <1>1 DEF N, Steps
      <3>4. \A n \in 1..N : n # 0
        BY <1>1
      <3>5. QED BY <3>1, <3>2, <3>3, <3>4, Zenon
    <2>2. g = [n \in Steps |-> IF n = 0 THEN f.inserts ELSE Round(f, e, g[n - 1])]
      <3>1. g = [n \in Steps |-> g[n]]
        BY <1>5, Zenon DEF N, Steps
      <3> DEFINE h == [n \in Steps |-> IF n = 0 THEN f.inserts
                                       ELSE Round(f, e, g[n - 1])]
      <3>2. \A n \in Steps : h[n] = g[n]
        BY <2>1
      <3>3. h = [n \in Steps |-> h[n]]
        OBVIOUS
      <3> HIDE DEF h
      <3>4. g = h
        BY <3>1, <3>2, <3>3
      <3>5. QED BY <3>4 DEF h
    <2>3. QED BY <2>2 DEF Reaches
  <1>7. QED BY <1>6

(* So what the SSP visits stays in such a set too.                         *)
LEMMA VisitsStay ==
    ASSUME ParametersAssumption, NEW f, NEW rs, NEW C, f.inserts \subseteq C,
           \A p \in C : Below(f, Resolved(f, rs), p) \subseteq C
    PROVE  Visited(f, rs) \subseteq C
  <1> DEFINE e == Resolved(f, rs)
             g == CHOOSE h : Reaches(f, e, h)
  <1>1. Reaches(f, e, g)
    BY WalkExists
  <1>2. Cardinality(Params) \in Steps
    BY ParamsAreCounted DEF Steps
  <1>3. Visited(f, rs) = g[Cardinality(Params)]
    BY VisitedIsReached
  <1> HIDE DEF g, e
  <1>4. \A n \in Steps : g[n] \subseteq C
    BY <1>1, WalkStays DEF e
  <1>5. QED BY <1>2, <1>3, <1>4
----
(* What one parameter resolves to.                                         *)

ParamsInv == ParametersTypeOK /\ RecordsAreAccepted

LEMMA MappingTypes ==
    ASSUME ParametersAssumption, NEW f \in Releases
    PROVE  /\ f \in Frameworks /\ f.catalog \subseteq Params /\ f.inserts \subseteq Params
           /\ \A p \in Params : /\ f.mapping[p] \in Mappings
                                /\ f.children[p] \subseteq Params
                                /\ DOMAIN f.choices[p] \subseteq Keys
                                /\ \A k \in DOMAIN f.choices[p] :
                                      f.choices[p][k] \subseteq Params
  BY DEF ParametersAssumption, Frameworks

(* A value inserts what the selected choices insert and nothing else.      *)
LEMMA AuthoredInserts ==
    ASSUME NEW f, NEW p, NEW r \in ProjectRecords, r # NoRecord
    PROVE  authoredValues(f, p, r).inserts \subseteq selectedNestedParameters(f, p, r)
  <1>1. r.form \in {"none", "assignment", "selection"}
    BY DEF ProjectRecords
  <1>2. CASE r.form = "none"
    BY <1>2, Zenon DEF authoredValues, NoValue
  <1>3. CASE r.form = "assignment"
    <2>1. authoredValues(f, p, r) = Plain(r.values)
      BY <1>3, Zenon DEF authoredValues
    <2>2. QED BY <2>1 DEF Plain
  <1>4. CASE r.form = "selection"
    <2> DEFINE chosen == r.keys \cap DOMAIN f.choices[p]
    <2>1. authoredValues(f, p, r) =
            [texts |-> chosen, inserts |-> UNION {f.choices[p][k] : k \in chosen}]
      BY <1>4, Zenon DEF authoredValues
    <2>2. authoredValues(f, p, r).inserts = UNION {f.choices[p][k] : k \in chosen}
      BY <2>1
    <2>3. selectedNestedParameters(f, p, r) = UNION {f.choices[p][k] : k \in chosen}
      BY Zenon DEF selectedNestedParameters
    <2>4. QED BY <2>2, <2>3
  <1>5. QED BY <1>1, <1>2, <1>3, <1>4

LEMMA ResolvedInserts ==
    ASSUME NEW f, NEW p, NEW r \in ProjectRecords \cup {NoRecord}
    PROVE  resolveParameter(f, p, r).inserts \subseteq selectedNestedParameters(f, p, r)
  <1> DEFINE S == selectedNestedParameters(f, p, r)
             m == f.mapping[p]
  <1>1. Own(f, p, r).inserts \subseteq S
    BY AuthoredInserts DEF Own, NoValue
  <1>2. Accepted(f, p, r).inserts \subseteq S
    BY AuthoredInserts DEF Accepted, NoValue, Plain
  <1>3. \A reason : Unresolved(reason).inserts = {}
    BY DEF Unresolved
  <1>4. \A o, v : Value(o, v).inserts = v.inserts
    BY DEF Value
  <1>5. Plain(m.values).inserts = {}
    BY DEF Plain
  <1> HIDE DEF S, m
  <1>6. \/ \E reason : resolveParameter(f, p, r) = Unresolved(reason)
        \/ \E o : resolveParameter(f, p, r) = Value(o, Own(f, p, r))
        \/ \E o : resolveParameter(f, p, r) = Value(o, Accepted(f, p, r))
        \/ \E o : resolveParameter(f, p, r) = Value(o, Plain(m.values))
    BY DEF resolveParameter, m
  <1>7. QED BY <1>1, <1>2, <1>3, <1>4, <1>5, <1>6 DEF S

(* Two resolutions that the SSP cannot tell apart.                         *)
Alike(a, b) == a.origin = b.origin /\ a.texts = b.texts /\ a.inserts = b.inserts

(* Documentation resolves as no record does.                               *)
LEMMA DocumentationResolvesToNothing ==
    ASSUME ParametersAssumption, ParametersTypeOK, NEW p \in Params, IsDocumentation(p)
    PROVE  Alike(resolveParameter(framework, p, parameterRecords[p]),
                 resolveParameter(framework, p, NoRecord))
  <1> DEFINE f == framework
             m == framework.mapping[p]
             r == parameterRecords[p]
  <1>1. /\ m \in Mappings /\ r # NoRecord
        /\ m.basis = "catalog-unassigned" => m.status = "csp-organization-defined"
    BY MappingTypes DEF ParametersTypeOK, IsDocumentation, ParametersAssumption
  <1>2. \A a, b : Alike(Unresolved(a), Unresolved(b))
    BY DEF Alike, Unresolved
  <1>3. \A a : Alike(a, a)
    BY DEF Alike
  <1>4. CASE p \notin f.catalog
    BY <1>2, <1>4 DEF resolveParameter
  <1>5. CASE /\ p \in f.catalog
             /\ \/ m.basis = "control-level-unmapped"
                \/ frameworkStatusAllowsAuthoritativeSubstitution(m)
                \/ m.status \in FailClosed
    BY <1>3, <1>5 DEF resolveParameter
  <1>6. CASE /\ p \in f.catalog /\ m.basis # "control-level-unmapped"
             /\ ~frameworkStatusAllowsAuthoritativeSubstitution(m)
             /\ m.status \notin FailClosed
    <2>1. r.intent \in {"dspav-assertion", "documented-deviation", "conflict-proceeding"}
      BY <1>1, <1>6
         DEF IsDocumentation, frameworkStatusAllowsAuthoritativeSubstitution,
             Mappings, MappingBases, Authoritative
    <2>2. /\ Own(f, p, r) = NoValue /\ Own(f, p, NoRecord) = NoValue
          /\ Accepted(f, p, r) = NoValue /\ Accepted(f, p, NoRecord) = NoValue
      BY <1>1, <2>1 DEF Own, Accepted
    <2>3. resolveParameter(f, p, r) = resolveParameter(f, p, NoRecord)
      BY <1>6, <2>2 DEF resolveParameter
    <2>4. QED BY <1>3, <2>3
  <1>7. QED BY <1>4, <1>5, <1>6
----
(* The two walks.                                                          *)

LEMMA BelowIsTyped ==
    ASSUME ParametersAssumption, NEW f \in Releases,
           NEW rs \in [Params -> ProjectRecords \cup {NoRecord}], NEW p \in Params
    PROVE  /\ Resolved(f, rs)[p] = resolveParameter(f, p, rs[p])
           /\ Below(f, Resolved(f, rs), p) \subseteq Params
  <1>1. Resolved(f, rs)[p] = resolveParameter(f, p, rs[p])
    BY DEF Resolved
  <1>2. selectedNestedParameters(f, p, rs[p]) \subseteq Params
    BY MappingTypes DEF selectedNestedParameters
  <1>3. resolveParameter(f, p, rs[p]).inserts \subseteq Params
    BY <1>2, ResolvedInserts
  <1>4. QED BY <1>1, <1>3, MappingTypes DEF Below

(* Records that resolve alike make the SSP read alike.                     *)
LEMMA AlikeReadsAlike ==
    ASSUME ParametersAssumption, NEW f \in Releases,
           NEW rs \in [Params -> ProjectRecords \cup {NoRecord}],
           NEW ts \in [Params -> ProjectRecords \cup {NoRecord}],
           \A p \in Params : Alike(resolveParameter(f, p, rs[p]),
                                   resolveParameter(f, p, ts[p]))
    PROVE  SspText(f, rs) = SspText(f, ts)
  <1> DEFINE e == Resolved(f, rs)
             d == Resolved(f, ts)
  <1>1. \A p \in Params : Alike(e[p], d[p])
    BY DEF Resolved
  <1>2. \A p \in Params : Below(f, e, p) = Below(f, d, p)
    BY <1>1 DEF Below, Alike
  <1>3. f.inserts \subseteq Params
    BY MappingTypes
  <1>4. \A p \in Params : Below(f, e, p) \subseteq Params /\ Below(f, d, p) \subseteq Params
    BY BelowIsTyped
  <1> HIDE DEF e, d
  <1>5. ASSUME NEW s \in SUBSET Params PROVE Round(f, e, s) = Round(f, d, s)
    <2>1. \A p \in s : Below(f, e, p) = Below(f, d, p)
      BY <1>2
    <2>2. QED BY <2>1 DEF Round
  <1>6. ASSUME NEW a, NEW b, NEW g, Reaches(f, a, g),
               \A p \in Params : Below(f, a, p) \subseteq Params,
               \A s \in SUBSET Params : Round(f, a, s) = Round(f, b, s)
        PROVE  Reaches(f, b, g)
    <2>1. \A n \in Steps : g[n] \subseteq Params
      BY <1>3, <1>6, WalkStays
    <2>2. \A n \in Steps : n # 0 => n - 1 \in Steps
      BY ParamsAreCounted DEF Steps
    <2>3. \A n \in Steps : n # 0 => Round(f, a, g[n - 1]) = Round(f, b, g[n - 1])
      BY <1>6, <2>1, <2>2
    <2> DEFINE h == [n \in Steps |-> IF n = 0 THEN f.inserts ELSE Round(f, b, g[n - 1])]
    <2>4. \A n \in Steps : h[n] = IF n = 0 THEN f.inserts ELSE Round(f, b, g[n - 1])
      OBVIOUS
    <2>5. \A n \in Steps : g[n] = h[n]
      BY <1>6, <2>3, <2>4, RoundByRound
    <2>6. h = [n \in Steps |-> h[n]]
      OBVIOUS
    <2>7. g = [n \in Steps |-> g[n]]
      BY <1>6 DEF Reaches
    <2> HIDE DEF h
    <2>8. g = h
      BY <2>5, <2>6, <2>7
    <2>9. QED BY <2>8 DEF h, Reaches
  <1>7. \A g : Reaches(f, e, g) <=> Reaches(f, d, g)
    BY <1>4, <1>5, <1>6
  <1>8. (CHOOSE g : Reaches(f, e, g)) = (CHOOSE g : Reaches(f, d, g))
    BY <1>7, Zenon
  <1>9. Visited(f, rs) = Visited(f, ts)
    BY <1>8, VisitedIsReached DEF e, d
  <1>10. Visited(f, rs) \subseteq Params
    BY <1>3, <1>4, VisitsStay DEF e
  <1>11. Reported(f, rs) = Reported(f, ts) /\ Reported(f, rs) \subseteq Params
    BY <1>9, <1>10 DEF Reported
  <1>12. \A p \in Params : e[p].origin = d[p].origin /\ e[p].texts = d[p].texts
    BY <1>1 DEF Alike
  <1>13. QED BY <1>11, <1>12 DEF SspText, e, d

LEMMA DocumentationIsSilent ==
    ASSUME ParametersAssumption, ParametersTypeOK
    PROVE  DocumentationIsNoAnswer
  <1> DEFINE ts == [p \in Params |-> IF IsDocumentation(p) THEN NoRecord
                                    ELSE parameterRecords[p]]
  <1>1. /\ framework \in Releases
        /\ parameterRecords \in [Params -> ProjectRecords \cup {NoRecord}]
    BY DEF ParametersTypeOK
  <1>2. ts \in [Params -> ProjectRecords \cup {NoRecord}]
    BY <1>1
  <1>3. ASSUME NEW p \in Params
        PROVE  Alike(resolveParameter(framework, p, parameterRecords[p]),
                     resolveParameter(framework, p, ts[p]))
    <2>1. CASE IsDocumentation(p)
      <3>1. ts[p] = NoRecord
        BY <2>1
      <3>2. QED BY <2>1, <3>1, DocumentationResolvesToNothing
    <2>2. CASE ~IsDocumentation(p)
      <3>1. ts[p] = parameterRecords[p]
        BY <2>2
      <3>2. QED BY <3>1 DEF Alike
    <2>3. QED BY <2>1, <2>2
  <1>4. SspText(framework, parameterRecords) = SspText(framework, ts)
    <2> HIDE DEF ts
    <2>1. QED BY <1>1, <1>2, <1>3, AlikeReadsAlike
  <1>5. QED BY <1>4 DEF DocumentationIsNoAnswer

(* Everything that insertions lead to is an aggregate or an editor of the  *)
(* panel.                                                                  *)
LEMMA UnresolvedCounts ==
    ASSUME ParametersAssumption, NEW f \in Releases,
           NEW rs \in [Params -> ProjectRecords \cup {NoRecord}]
    PROVE  sspUnresolved(f, rs) \subseteq NeedAttention(f, rs)
  <1> DEFINE e == Resolved(f, rs)
             visible == visibleAuthoringParameters(f)
             nested(p) == selectedNestedParameters(f, p, rs[p])
             A == Authorable(f, rs)
             C == {p \in f.inserts : f.children[p] # {}} \cup {p \in A : f.children[p] = {}}
  <1>1. /\ f \in Frameworks /\ f.catalog \subseteq Params /\ f.inserts \subseteq f.catalog
    BY MappingTypes DEF ParametersAssumption
  <1>2. visible \subseteq A /\ visible \subseteq f.catalog
        /\ \A p \in visible : f.children[p] = {} /\ nested(p) \subseteq A
    BY DEF Authorable, visibleAuthoringParameters
  <1>3. f.inserts \subseteq C
    <2>1. ASSUME NEW a \in f.inserts, f.children[a] = {} PROVE a \in visible
      <3>1. a \in f.catalog
        BY <1>1
      <3>2. a \notin nestedOnlyParameterIds(f)
        BY Zenon DEF nestedOnlyParameterIds
      <3>3. QED BY <2>1, <3>1, <3>2 DEF visibleAuthoringParameters
    <2>2. QED BY <1>2, <2>1
  <1>4. ASSUME NEW a \in f.inserts, f.children[a] # {}, NEW q \in f.children[a]
        PROVE  q \in C
    <2>1. q \in f.catalog /\ f.children[q] = {}
      BY <1>1, <1>4 DEF ParametersAssumption
    <2>2. q \notin nestedOnlyParameterIds(f)
      <3>1. q \in f.inserts \/ \A s \in f.catalog : q \notin Inserted(f, s)
        BY <1>4, Zenon DEF ParametersAssumption
      <3>2. QED BY <3>1 DEF nestedOnlyParameterIds, Selects
    <2>3. QED BY <1>2, <2>1, <2>2 DEF visibleAuthoringParameters
  <1>5. ASSUME NEW p \in A, f.children[p] = {}, NEW q \in e[p].inserts
        PROVE  q \in C
    <2>1. \A s \in visible : nested(s) \subseteq Inserted(f, s)
      BY DEF selectedNestedParameters, Inserted
    <2>2. \A s \in visible : \A x \in Inserted(f, s) :
             f.choices[x] = <<>> /\ f.children[x] = {} /\ x \in f.catalog
      BY <1>1, <1>2 DEF ParametersAssumption
    <2>3. p \in f.catalog
      BY <1>2, <2>1, <2>2 DEF Authorable
    <2>4. e[p] = resolveParameter(f, p, rs[p]) /\ q \in nested(p)
      BY <1>1, <1>5, <2>3, BelowIsTyped, ResolvedInserts
    <2>5. CASE p \in visible
      BY <1>2, <2>1, <2>2, <2>4, <2>5
    <2>6. CASE p \notin visible
      <3>1. PICK s \in visible : p \in nested(s)
        BY <2>6 DEF Authorable
      <3>2. f.choices[p] = <<>>
        BY <2>1, <2>2, <3>1
      <3>3. nested(p) = {}
        BY <3>2 DEF selectedNestedParameters
      <3>4. QED BY <2>4, <3>3
    <2>7. QED BY <2>5, <2>6
  <1>6. \A p \in C : Below(f, e, p) \subseteq C
    BY <1>4, <1>5 DEF Below
  <1>7. Visited(f, rs) \subseteq C
    <2> HIDE DEF C
    <2>1. QED BY <1>3, <1>6, VisitsStay
  <1>8. Reported(f, rs) \subseteq A
    BY <1>7 DEF Reported
  <1>9. QED BY <1>8 DEF sspUnresolved, NeedAttention
----
(* What the panel writes.                                                  *)

(* A record the parser takes as it is.                                     *)
IsClean(r) == r # NoRecord => r \in ProjectRecords /\ Accepts(r) /\ Parsed(r) = r

LEMMA WriteStep ==
    ASSUME ParamsInv, NEW p \in Params, NEW r, IsClean(r), Write(p, r)
    PROVE  ParamsInv'
  <1>1. /\ framework' = framework /\ framework \in Releases
        /\ parameterRecords' = [parameterRecords EXCEPT ![p] = r]
        /\ parameterRecords \in [Params -> ProjectRecords \cup {NoRecord}]
        /\ r \in ProjectRecords \cup {NoRecord}
    BY DEF Write, ParamsInv, ParametersTypeOK, IsClean
  <1>2. ParametersTypeOK'
    BY <1>1 DEF ParametersTypeOK
  <1>3. \A q \in Params : parameterRecords'[q] = IF q = p THEN r ELSE parameterRecords[q]
    BY <1>1
  <1>4. RecordsAreAccepted'
    BY <1>3 DEF ParamsInv, RecordsAreAccepted, IsClean
  <1>5. QED BY <1>2, <1>4 DEF ParamsInv

LEMMA NoBodyIsClean ==
    ASSUME NEW intent \in Intents
    PROVE  IsClean(NoBody(intent))
  BY DEF NoBody, IsClean, ProjectRecords, Accepts, Parsed

LEMMA AssignmentIsClean ==
    ASSUME NEW intent \in Intents, NEW lines \in SUBSET (Lines \cup {Blank})
    PROVE  IsClean(Assignment(intent, lines))
  <1> DEFINE values == persistAssignmentValues(lines)
             r == [intent |-> intent, form |-> "assignment", values |-> values, keys |-> {}]
  <1>1. CASE values # {}
    <2>1. values \subseteq Lines \cup {Blank} /\ values \ {Blank} = values
      BY DEF persistAssignmentValues
    <2>2. Assignment(intent, lines) = r
      BY <1>1 DEF Assignment, NoBody
    <2> HIDE DEF values
    <2>3. r \in ProjectRecords
      BY <2>1 DEF ProjectRecords
    <2>4. Accepts(r)
      BY <1>1, <2>1 DEF Accepts
    <2>5. Parsed(r) = r
      BY <2>1 DEF Parsed
    <2>6. QED BY <2>2, <2>3, <2>4, <2>5 DEF IsClean
  <1>2. CASE values = {}
    <2>1. Assignment(intent, lines) \in {NoRecord, NoBody(intent)}
      BY <1>2 DEF Assignment
    <2>2. QED BY <2>1, NoBodyIsClean DEF IsClean
  <1>3. QED BY <1>1, <1>2

LEMMA SelectionIsClean ==
    ASSUME NEW keys \in SUBSET Keys
    PROVE  IsClean(Selection(keys))
  <1> DEFINE r == [intent |-> "organization-defined", form |-> "selection",
                   values |-> {}, keys |-> keys]
  <1>1. Selection(keys) \in {NoRecord, r}
    BY DEF Selection, NoBody
  <1>2. r \in ProjectRecords
    BY DEF ProjectRecords, Intents
  <1>3. Accepts(r) /\ Parsed(r) = r
    BY DEF Accepts, Parsed
  <1> HIDE DEF r
  <1>4. QED BY <1>1, <1>2, <1>3 DEF IsClean

LEMMA FieldStep ==
    ASSUME ParamsInv, NEW p \in Params, NEW mode, NEW intent \in Intents,
           Field(p, mode, intent)
    PROVE  ParamsInv'
  BY AssignmentIsClean, WriteStep DEF Field

LEMMA ChooseStep ==
    ASSUME ParametersAssumption, ParamsInv, NEW p \in Params, choose(p)
    PROVE  ParamsInv'
  <1> DEFINE r == parameterRecords[p]
             selected == IF r = NoRecord THEN {} ELSE r.keys
  <1>1. selected \subseteq Keys
    BY DEF ParamsInv, ParametersTypeOK, ProjectRecords
  <1>2. DOMAIN framework.choices[p] \subseteq Keys
    BY MappingTypes DEF ParamsInv, ParametersTypeOK
  <1>3. PICK k \in DOMAIN framework.choices[p] :
          Write(p, Selection(IF framework.one[p] THEN {k}
                             ELSE IF k \in selected THEN selected \ {k}
                             ELSE selected \cup {k}))
    BY DEF choose
  <1> HIDE DEF selected
  <1>4. PICK keys \in SUBSET Keys : Write(p, Selection(keys))
    BY <1>1, <1>2, <1>3
  <1>5. QED BY <1>4, SelectionIsClean, WriteStep

LEMMA ParamsInvariant == ParametersSpec => []ParamsInv
  <1>1. ParametersInit => ParamsInv
    BY DEF ParametersInit, ParamsInv, ParametersTypeOK, RecordsAreAccepted
  <1>2. ParamsInv /\ [ParametersNext]_parametersVars => ParamsInv'
    <2> SUFFICES ASSUME ParamsInv, [ParametersNext]_parametersVars PROVE ParamsInv'
      OBVIOUS
    <2>1. ASSUME NEW p \in Params,
                 \/ documentDeviation(p) \/ assertDspav(p) \/ documentUnmapped(p)
                 \/ authorInsteadOfBaseline(p) \/ assign(p)
          PROVE  ParamsInv'
      BY <2>1, FieldStep
         DEF documentDeviation, assertDspav, documentUnmapped, authorInsteadOfBaseline,
             assign, Intents
    <2>2. ASSUME NEW p \in Params, proceedInConflict(p) \/ acceptBaseline(p)
          PROVE  ParamsInv'
      BY <2>2, NoBodyIsClean, WriteStep DEF proceedInConflict, acceptBaseline, Intents
    <2>3. ASSUME NEW p \in Params, clearAcceptance(p) PROVE ParamsInv'
      BY <2>3, WriteStep DEF clearAcceptance, IsClean
    <2>4. ASSUME NEW p \in Params, choose(p) PROVE ParamsInv'
      BY <2>4, ChooseStep, ParametersAssumption
    <2>5. CASE release
      BY <2>5 DEF release, ParamsInv, ParametersTypeOK, RecordsAreAccepted
    <2>6. CASE UNCHANGED parametersVars
      BY <2>6 DEF parametersVars, ParamsInv, ParametersTypeOK, RecordsAreAccepted
    <2>7. QED BY <2>1, <2>2, <2>3, <2>4, <2>5, <2>6 DEF ParametersNext, Author
  <1>3. QED BY <1>1, <1>2, PTL DEF ParametersSpec

(* Whatever is written and released, a parameter has a record of the       *)
(* stored form or none.                                                    *)
THEOREM ParametersTyped == ParametersSpec => []ParametersTypeOK
  <1>1. ParamsInv => ParametersTypeOK
    BY DEF ParamsInv
  <1>2. QED BY <1>1, ParamsInvariant, PTL

(* The server's parser takes every record the panel writes as it is        *)
(* (ParameterAuthoringPanel.tsx:247, validation.ts:37).                    *)
THEOREM EveryRecordIsAccepted == ParametersSpec => []RecordsAreAccepted
  <1>1. ParamsInv => RecordsAreAccepted
    BY DEF ParamsInv
  <1>2. QED BY <1>1, ParamsInvariant, PTL

(* The SSP reads as if documentation were not there, after any release     *)
(* (parameter-resolution.ts:147).                                          *)
THEOREM DocumentationIsNeverSubstituted == ParametersSpec => []DocumentationIsNoAnswer
  <1>1. ParametersTypeOK => DocumentationIsNoAnswer
    BY DocumentationIsSilent, ParametersAssumption
  <1>2. QED BY <1>1, ParametersTyped, PTL

(* Nothing is missing from the document that its authors are not told of   *)
(* (resolveStatement.ts:81, parameter-authoring.ts:207).                   *)
THEOREM UnresolvedIsAlwaysCounted == ParametersSpec => []UnresolvedIsCounted
  <1>1. ParametersTypeOK => UnresolvedIsCounted
    BY UnresolvedCounts, ParametersAssumption DEF ParametersTypeOK, UnresolvedIsCounted
  <1>2. QED BY <1>1, ParametersTyped, PTL

====
