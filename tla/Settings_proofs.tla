-------------------------- MODULE Settings_proofs --------------------------
(***************************************************************************)
(* A restart brings back the settings in use, for any number of requests   *)
(* at once, failing statements and restarts.                               *)
(*                                                                         *)
(* The property speaks of a server without requests under way.  The        *)
(* invariant says what each request relies on at each of its steps, key by *)
(* key (Follows), that keys two requests share are torn (Apart), and who   *)
(* writes the certificate's files (OneUpload).                             *)
(***************************************************************************)
EXTENDS RuntimeSettings, TLAPS

RequestKinds == {"telegram", "tak", "upload"}
Uploading == {"write", "written", "rename", "direct"}
Steps == Uploading \union {"read", "save", "update"}
Partial == UNION {[S -> Values] : S \in SUBSET Keys}
HandlerState ==
  {Free} \union [at : Steps, kind : RequestKinds, given : Partial, copy : Partial,
                 left : SUBSET Keys]

\* What a handler was given, has read and has left to save at each of its steps.
Shape(s) ==
  /\ \A k \in DOMAIN s.given : k \in Texts => s.given[k] # 0
  /\ s.kind = "upload" => DOMAIN s.given = {"cert"}
  /\ s.at \in Uploading => s.kind = "upload" /\ s.copy = <<>>
  /\ s.at = "read" => s.copy = <<>> \/ (s.kind = "tak" /\ DOMAIN s.copy = Publisher)
  /\ s.at = "save" => DOMAIN s.copy = Group(s.kind) /\ s.left \subseteq Saved(s.kind)
  /\ s.at = "update" =>
       DOMAIN s.copy = Group(s.kind) \/ (s.kind = "tak" /\ DOMAIN s.copy = Client)
  /\ s.at \in Uploading \union {"read"} \/ (s.at = "update" /\ s.kind = "upload")
       => s.left = Saved(s.kind)

SettingsTyped ==
  /\ live \in [Keys -> Values]
  /\ table \in [Keys -> Values \union {Absent}]
  /\ yaml \in [Keys -> Values]
  /\ handler \in [Handlers -> HandlerState]
  /\ torn \in SUBSET Keys
  /\ shared \in BOOLEAN
  /\ \A h \in Handlers : handler[h] # Free => Shape(handler[h])

\* A start would bring the value in use back.
Same(k) == Restored[k] = live[k]
Covers(h, k) == handler[h] # Free /\ k \in Group(handler[h].kind)

\* An empty text in use is one the configuration file leaves empty too.
Plausible(k, v) == k \in Texts /\ v = 0 => yaml[k] = 0

\* A handler that saves first and then updates: Telegram and TAK.
SavesFirst(s, k) ==
  /\ s.at = "read" => Same(k) /\ (k \in DOMAIN s.copy => s.copy[k] = live[k])
  /\ s.at = "save" =>
       /\ Plausible(k, s.copy[k])
       /\ IF k \in s.left THEN Same(k) ELSE table[k] = s.copy[k]
  /\ s.at = "update" =>
       IF k \in DOMAIN s.copy THEN Plausible(k, s.copy[k]) /\ table[k] = s.copy[k] ELSE Same(k)

\* The upload of a certificate, which updates first.
UpdatesFirst(s, k) ==
  IF k # "cert" THEN Same(k) /\ (s.at = "update" => s.copy[k] = live[k])
  ELSE /\ s.at \in Uploading \union {"read", "update"} => Same(k)
       /\ s.at \in {"update", "save"} => s.copy[k] # 0
       /\ s.at = "save" => s.copy[k] = live[k] /\ ("cert" \in s.left \/ table[k] = s.copy[k])

Follows(s, k) == IF s.kind = "upload" THEN UpdatesFirst(s, k) ELSE SavesFirst(s, k)

\* Keys that two handlers change are torn.
Apart ==
  \A g, h \in Handlers : \A k \in Keys :
    g # h /\ Covers(g, k) /\ Covers(h, k) =>
      Group(handler[g].kind) \union Group(handler[h].kind) \subseteq torn

KeyInv(k) ==
  k \notin torn =>
    /\ \A h \in Handlers : Covers(h, k) => Follows(handler[h], k)
    /\ (\A h \in Handlers : ~Covers(h, k)) => Same(k)

\* What the certificate's files rely on.
OneUpload ==
  /\ dest = "partial" => shared
  /\ ~shared =>
       /\ \A g, h \in Handlers : handler[g] # Free /\ handler[h] # Free
            /\ handler[g].kind = "upload" /\ handler[h].kind = "upload" => g = h
       /\ \A h \in Handlers : handler[h] # Free =>
            /\ handler[h].at # "direct"
            /\ handler[h].at = "rename" => tmp = "whole"

SettingsInv == SettingsTyped /\ Apart /\ (\A k \in Keys : KeyInv(k)) /\ OneUpload

\* What a row and the configuration file make of a key.
Norm(k, v) == IF k = "rate" /\ v = 0 THEN DefaultRate ELSE v
Effective(k, row, file) ==
  Norm(k, IF row = Absent \/ (k \in Texts /\ row = 0) THEN file ELSE row)

LEMMA RestoredAt ==
  ASSUME NEW k \in Keys
  PROVE  /\ Restored[k] = Effective(k, table[k], yaml[k])
         /\ Restored'[k] = Effective(k, table'[k], yaml'[k])
BY DEF Restored, Normal, Effective, Norm

LEMMA Groups3 ==
  /\ Group("telegram") = Telegram
  /\ Group("tak") = Client \union Publisher
  /\ Group("upload") = Client
  /\ \A kind \in RequestKinds : Group(kind) \subseteq Keys
BY DEF Group, RequestKinds, Keys

\* What is not touched stays as it was.
LEMMA Untouched ==
  ASSUME NEW k \in Keys, live'[k] = live[k], table'[k] = table[k], yaml'[k] = yaml[k], NEW s
  PROVE  (Same(k)' <=> Same(k)) /\ (Follows(s, k)' <=> Follows(s, k))
<1>1. Restored'[k] = Restored[k]
  BY RestoredAt
<1>2. Same(k)' <=> Same(k)
  BY <1>1 DEF Same
<1>3. SavesFirst(s, k)' <=> SavesFirst(s, k)
  BY <1>2 DEF SavesFirst, Plausible
<1>4. UpdatesFirst(s, k)' <=> UpdatesFirst(s, k)
  BY <1>2 DEF UpdatesFirst
<1> QED
  BY <1>2, <1>3, <1>4 DEF Follows

\* What the step of a handler has to show: it changes keys of the group C only, and what
\* it relies on afterwards, or leaves behind when it ends, holds for those.
LEMMA OwnKeys ==
  ASSUME SettingsInv, NEW g \in Handlers, NEW s \in HandlerState, NEW C \in SUBSET Keys,
         handler' = [handler EXCEPT ![g] = s],
         s # Free => Group(s.kind) = C,
         s = Free => handler[g] # Free /\ Group(handler[g].kind) = C,
         \A k \in Keys \ C : live'[k] = live[k] /\ table'[k] = table[k] /\ ~Covers(g, k),
         yaml' = yaml, torn \subseteq torn', Apart',
         \A k \in C : k \notin torn' => IF s = Free THEN Same(k)' ELSE Follows(s, k)'
  PROVE  \A k \in Keys : KeyInv(k)'
<1> SUFFICES ASSUME NEW k \in Keys, k \notin torn'
             PROVE  /\ \A h \in Handlers : Covers(h, k)' => Follows(handler[h], k)'
                    /\ (\A h \in Handlers : ~Covers(h, k)') => Same(k)'
  BY DEF KeyInv
<1>1. k \notin torn /\ KeyInv(k) /\ Apart
  BY DEF SettingsInv
<1>2. \A h \in Handlers : handler'[h] = IF h = g THEN s ELSE handler[h]
  BY DEF SettingsInv, SettingsTyped
<1>3. \A h \in Handlers : h # g => (Covers(h, k)' <=> Covers(h, k))
  BY <1>2 DEF Covers
<1>4. CASE k \notin C
  <2>1. ~Covers(g, k) /\ ~Covers(g, k)'
    BY <1>2, <1>4 DEF Covers
  <2>2. \A h \in Handlers : Covers(h, k)' => handler'[h] = handler[h] /\ Covers(h, k)
    BY <1>2, <1>3, <2>1
  <2>3. (Same(k)' <=> Same(k)) /\ \A r : Follows(r, k)' <=> Follows(r, k)
    BY <1>4, Untouched
  <2>4. ASSUME NEW h \in Handlers, Covers(h, k)' PROVE Follows(handler[h], k)'
    <3>1. PICK r : r = handler[h]
      OBVIOUS
    <3>2. handler'[h] = r /\ Follows(r, k)
      BY <1>1, <2>2, <2>4, <3>1 DEF KeyInv
    <3>3. Follows(r, k)'
      BY <2>3, <3>2
    <3> QED
      BY <3>2, <3>3
  <2> QED
    BY <1>1, <1>3, <2>1, <2>3, <2>4 DEF KeyInv
<1>5. CASE k \in C
  <2>1. ASSUME NEW h \in Handlers, h # g, Covers(h, k)' PROVE FALSE
    <3>1. CASE s = Free
      BY <1>1, <1>3, <1>5, <2>1, <3>1 DEF Apart, Covers
    <3>2. CASE s # Free
      <4>1. Covers(g, k)' /\ k \in Group(handler'[g].kind)
        BY <1>2, <1>5, <3>2 DEF Covers
      <4> QED
        BY <2>1, <4>1 DEF Apart
    <3> QED
      BY <3>1, <3>2
  <2>2. handler'[g] = s
    BY <1>2
  <2>3. Covers(g, k)' <=> s # Free
    BY <1>5, <2>2 DEF Covers
  <2>4. IF s = Free THEN Same(k)' ELSE Follows(s, k)'
    BY <1>5
  <2>5. s # Free => Follows(handler[g], k)'
    BY <2>2, <2>4
  <2> QED
    BY <2>1, <2>3, <2>4, <2>5
<1> QED
  BY <1>4, <1>5

LEMMA HandlerStep ==
  ASSUME SettingsInv, NEW g \in Handlers, handler[g] # Free, NEW s \in HandlerState,
         handler' = [handler EXCEPT ![g] = s],
         NEW C, C = Group(handler[g].kind),
         s # Free => s.kind = handler[g].kind /\ Shape(s),
         live' \in [Keys -> Values], table' \in [Keys -> Values \union {Absent}], yaml' = yaml,
         torn \subseteq torn', torn' \in SUBSET Keys, shared' \in BOOLEAN,
         \A k \in Keys \ C : live'[k] = live[k] /\ table'[k] = table[k],
         \A k \in C : k \notin torn' /\ Follows(handler[g], k) =>
                        IF s = Free THEN Same(k)' ELSE Follows(s, k)',
         OneUpload'
  PROVE  SettingsInv'
<1>1. \A h \in Handlers : handler'[h] = IF h = g THEN s ELSE handler[h]
  BY DEF SettingsInv, SettingsTyped
<1>2. SettingsTyped'
  <2>1. handler' \in [Handlers -> HandlerState] /\ yaml' \in [Keys -> Values]
    BY DEF SettingsInv, SettingsTyped
  <2>2. ASSUME NEW h \in Handlers, handler'[h] # Free PROVE Shape(handler[h])'
    <3>1. PICK r : r = handler'[h]
      OBVIOUS
    <3>2. Shape(r)
      BY <1>1, <2>2, <3>1 DEF SettingsInv, SettingsTyped
    <3> QED
      BY <3>1, <3>2 DEF Shape
  <2> QED
    BY <2>1, <2>2 DEF SettingsTyped
<1>3. \A h \in Handlers :
        handler'[h] # Free => handler[h] # Free /\ handler'[h].kind = handler[h].kind
  BY <1>1
<1>4. Apart'
  <2> SUFFICES ASSUME NEW f \in Handlers, NEW h \in Handlers, NEW k \in Keys,
                      f # h, Covers(f, k)', Covers(h, k)'
               PROVE  Group(handler'[f].kind) \union Group(handler'[h].kind) \subseteq torn'
    BY DEF Apart
  <2>1. Covers(f, k) /\ Covers(h, k)
    BY <1>3 DEF Covers
  <2>2. handler'[f].kind = handler[f].kind /\ handler'[h].kind = handler[h].kind
    BY <1>3 DEF Covers
  <2>3. Group(handler[f].kind) \union Group(handler[h].kind) \subseteq torn
    BY <2>1 DEF SettingsInv, Apart
  <2> QED
    BY <2>2, <2>3
<1>5. handler[g].kind \in RequestKinds
  BY DEF SettingsInv, SettingsTyped, HandlerState
<1>6. C \in SUBSET Keys
  BY <1>5, Groups3
<1>7. \A k \in C : k \notin torn' => IF s = Free THEN Same(k)' ELSE Follows(s, k)'
  <2>1. ASSUME NEW k \in C, k \notin torn' PROVE Follows(handler[g], k)
    BY <1>6, <2>1 DEF SettingsInv, KeyInv, Covers
  <2> QED
    BY <2>1
<1>8. \A k \in Keys \ C : live'[k] = live[k] /\ table'[k] = table[k] /\ ~Covers(g, k)
  BY DEF Covers
<1>9. \A k \in Keys : KeyInv(k)'
  BY <1>4, <1>6, <1>7, <1>8, OwnKeys, Zenon
<1> QED
  BY <1>2, <1>4, <1>9 DEF SettingsInv

\* A step that leaves the files alone.
LEMMA FilesKept ==
  ASSUME SettingsInv, NEW g \in Handlers, handler[g] # Free, NEW s,
         handler' = [handler EXCEPT ![g] = s],
         s # Free => s.kind = handler[g].kind /\ s.at \notin {"rename", "direct"},
         tmp' = tmp, dest' = dest, shared' = shared
  PROVE  OneUpload'
<1>1. \A h \in Handlers : handler'[h] = IF h = g THEN s ELSE handler[h]
  BY DEF SettingsInv, SettingsTyped
<1> QED
  BY <1>1 DEF SettingsInv, OneUpload

LEMMA HandlerFields ==
  ASSUME SettingsInv, NEW h \in Handlers, handler[h].at # "idle"
  PROVE  /\ handler[h] # Free
         /\ handler[h] \in [at : Steps, kind : RequestKinds, given : Partial, copy : Partial,
                            left : SUBSET Keys]
         /\ Shape(handler[h])
BY DEF SettingsInv, SettingsTyped, HandlerState, Free

LEMMA MovedTo ==
  ASSUME NEW r \in [at : Steps, kind : RequestKinds, given : Partial, copy : Partial,
                    left : SUBSET Keys],
         NEW step \in Steps, NEW s, s = [r EXCEPT !.at = step]
  PROVE  /\ s \in HandlerState /\ s # Free /\ s.at = step /\ s.kind = r.kind
         /\ s.given = r.given /\ s.copy = r.copy /\ s.left = r.left
<1>1. /\ s \in [at : Steps, kind : RequestKinds, given : Partial, copy : Partial,
                left : SUBSET Keys]
      /\ s.at = step /\ s.kind = r.kind
      /\ s.given = r.given /\ s.copy = r.copy /\ s.left = r.left
  OBVIOUS
<1>2. s # Free
  BY <1>1 DEF Free, Steps, Uploading
<1> QED
  BY <1>1, <1>2 DEF HandlerState

\* Until the certificate is in place an upload changes no setting.
LEMMA UploadStep ==
  ASSUME SettingsInv, NEW h \in Handlers, handler[h].at \in Uploading,
         NEW step \in Uploading \union {"read"}, Set(h, [handler[h] EXCEPT !.at = step]),
         UNCHANGED <<live, table, yaml, torn>>, shared' \in BOOLEAN, OneUpload'
  PROVE  SettingsInv'
<1>1. PICK r : r = handler[h]
  OBVIOUS
<1>2. /\ r # Free /\ Shape(r)
      /\ r \in [at : Steps, kind : RequestKinds, given : Partial, copy : Partial,
                left : SUBSET Keys]
  BY <1>1, HandlerFields DEF Uploading
<1>3. PICK s : s = [r EXCEPT !.at = step]
  BY Zenon
<1>4. step \in Steps
  BY DEF Steps
<1>5. /\ s \in HandlerState /\ s # Free /\ s.at = step /\ s.kind = r.kind
      /\ s.given = r.given /\ s.copy = r.copy /\ s.left = r.left
  BY <1>2, <1>3, <1>4, MovedTo
<1>6. r.kind = "upload" /\ r.copy = <<>>
  BY <1>1, <1>2 DEF Shape
<1>7. Shape(s)
  BY <1>1, <1>2, <1>5, <1>6 DEF Shape, Uploading
<1>8. ASSUME NEW k \in Keys, Follows(r, k) PROVE Follows(s, k)'
  <2>1. Follows(s, k)
    BY <1>1, <1>5, <1>6, <1>8 DEF Follows, UpdatesFirst, Uploading
  <2> QED
    BY <2>1, Untouched
<1>9. handler' = [handler EXCEPT ![h] = s]
  BY <1>1, <1>3 DEF Set
<1>10. PICK C : C = Group(r.kind)
  OBVIOUS
<1>11. C \subseteq Keys
  BY <1>2, <1>10, Groups3
<1>12. /\ live' \in [Keys -> Values] /\ table' \in [Keys -> Values \union {Absent}]
       /\ torn' \in SUBSET Keys
  BY DEF SettingsInv, SettingsTyped
<1> QED
  BY <1>1, <1>2, <1>5, <1>7, <1>8, <1>9, <1>10, <1>11, <1>12, HandlerStep, Zenon

LEMMA FileSteps ==
  ASSUME SettingsInv, NEW h \in Handlers,
         WriteBegins(h) \/ WriteEnds(h) \/ Rename(h) \/ RenameFails(h) \/ DirectEnds(h)
  PROVE  SettingsInv'
<1>1. /\ handler \in [Handlers -> HandlerState] /\ shared \in BOOLEAN
      /\ OneUpload
  BY DEF SettingsInv, SettingsTyped
<1>2. UNCHANGED <<live, table, yaml, torn>>
  BY DEF WriteBegins, WriteEnds, Rename, RenameFails, DirectEnds
<1>3. handler[h].at \in Uploading /\ handler[h] # Free /\ handler[h].kind = "upload"
  <2>1. handler[h].at \in Uploading
    BY DEF WriteBegins, WriteEnds, Rename, RenameFails, DirectEnds, Uploading
  <2>2. handler[h].at # "idle"
    BY <2>1 DEF Uploading
  <2> QED
    BY <2>1, <2>2, HandlerFields DEF Shape
<1>4. ASSUME NEW step \in Uploading \union {"read"}, Set(h, [handler[h] EXCEPT !.at = step])
      PROVE  /\ \A g \in Handlers : g # h => handler'[g] = handler[g]
             /\ \A g \in Handlers : handler'[g] # Free => handler[g] # Free
                                                          /\ handler'[g].kind = handler[g].kind
             /\ handler'[h].at = step
  <2>1. handler[h] \in [at : Steps, kind : RequestKinds, given : Partial, copy : Partial,
                        left : SUBSET Keys]
    BY <1>3, HandlerFields DEF Uploading
  <2>2. handler'[h].at = step /\ handler'[h].kind = handler[h].kind
    BY <1>1, <1>4, <2>1 DEF Set
  <2>3. \A g \in Handlers : g # h => handler'[g] = handler[g]
    BY <1>1, <1>4 DEF Set
  <2> QED
    BY <1>3, <2>2, <2>3
<1>10. ~shared => \A g \in Handlers : g # h /\ handler[g] # Free => handler[g].at # "rename"
  <2>1. \A g \in Handlers : handler[g] # Free => Shape(handler[g])
    BY DEF SettingsInv, SettingsTyped
  <2>2. \A g \in Handlers : handler[g] # Free /\ handler[g].at = "rename" =>
                              handler[g].kind = "upload"
    BY <2>1 DEF Shape, Uploading
  <2> QED
    BY <1>1, <1>3, <2>2 DEF OneUpload
<1>5. CASE WriteBegins(h)
  <2>1. /\ "written" \in Uploading \union {"read"} /\ Set(h, [handler[h] EXCEPT !.at = "written"])
        /\ dest' = dest /\ shared' = shared
    BY <1>5 DEF WriteBegins, Uploading, Target
  <2>2. OneUpload'
    BY <1>1, <1>3, <1>4, <1>10, <2>1 DEF OneUpload
  <2> QED
    BY <1>1, <1>2, <1>3, <2>1, <2>2, UploadStep
<1>6. CASE WriteEnds(h)
  <2>1. /\ "rename" \in Uploading \union {"read"} /\ Set(h, [handler[h] EXCEPT !.at = "rename"])
        /\ dest' = dest /\ shared' = shared /\ (Alone(h) => tmp' = "whole")
    BY <1>6 DEF WriteEnds, Uploading, Target
  <2>2. ~shared => Alone(h)
    BY <1>1, <1>3 DEF OneUpload, Alone, Active
  <2>3. OneUpload'
    BY <1>1, <1>3, <1>4, <2>1, <2>2 DEF OneUpload
  <2> QED
    BY <1>1, <1>2, <1>3, <2>1, <2>3, UploadStep
<1>7. CASE Rename(h)
  <2>1. /\ "read" \in Uploading \union {"read"} /\ Set(h, [handler[h] EXCEPT !.at = "read"])
        /\ dest' = tmp /\ shared' = shared /\ handler[h].at = "rename"
    BY <1>7 DEF Rename
  <2>2. OneUpload'
    BY <1>1, <1>3, <1>4, <1>10, <2>1 DEF OneUpload
  <2> QED
    BY <1>1, <1>2, <1>3, <2>1, <2>2, UploadStep
<1>8. CASE RenameFails(h)
  <2>1. /\ "direct" \in Uploading \union {"read"} /\ Set(h, [handler[h] EXCEPT !.at = "direct"])
        /\ shared' = TRUE
    BY <1>8 DEF RenameFails, Uploading
  <2>2. OneUpload'
    BY <2>1 DEF OneUpload
  <2> QED
    BY <1>2, <1>3, <2>1, <2>2, UploadStep
<1>9. CASE DirectEnds(h)
  <2>1. /\ "read" \in Uploading \union {"read"} /\ Set(h, [handler[h] EXCEPT !.at = "read"])
        /\ shared' = shared /\ handler[h].at = "direct"
    BY <1>9 DEF DirectEnds
  <2>2. shared
    BY <1>1, <1>3, <2>1 DEF OneUpload
  <2>3. OneUpload'
    BY <2>1, <2>2 DEF OneUpload
  <2> QED
    BY <1>1, <1>2, <1>3, <2>1, <2>3, UploadStep
<1> QED
  BY <1>5, <1>6, <1>7, <1>8, <1>9

HandlerRecord ==
  [at : Steps, kind : RequestKinds, given : Partial, copy : Partial, left : SUBSET Keys]

\* The effective value of a saved one.
LEMMA SavedCounts ==
  ASSUME NEW k \in Keys, NEW v \in Values, Plausible(k, v)
  PROVE  Effective(k, v, yaml[k]) = Norm(k, v)
BY DEF Plausible, Effective, Norm, Values, Absent, Texts

\* SetSetting, and where it fails.
LEMMA SaveSafe ==
  ASSUME SettingsInv, NEW h \in Handlers, NEW x \in Keys, SetSetting(h, x)
  PROVE  SettingsInv'
<1>1. PICK r : r = handler[h]
  OBVIOUS
<1>2. r # Free /\ Shape(r) /\ r \in HandlerRecord /\ r.at = "save" /\ x \in r.left
  BY <1>1, HandlerFields DEF SetSetting, HandlerRecord
<1>3. PICK s : s = [r EXCEPT !.left = @ \ {x}]
  BY Zenon
<1>4. /\ s \in HandlerRecord /\ s.at = "save" /\ s.kind = r.kind
      /\ s.given = r.given /\ s.copy = r.copy /\ s.left = r.left \ {x}
  BY <1>2, <1>3 DEF HandlerRecord
<1>5. s \in HandlerState /\ s # Free
  BY <1>4 DEF HandlerState, HandlerRecord, Free
<1>6. Shape(s)
  BY <1>2, <1>4 DEF Shape, Uploading
<1>7. handler' = [handler EXCEPT ![h] = s]
  BY <1>1, <1>3 DEF SetSetting, Set
<1>8. UNCHANGED <<live, yaml, tmp, dest, shared>>
  BY DEF SetSetting, files
<1>9. PICK C : C = Group(r.kind)
  OBVIOUS
<1>10. C \subseteq Keys /\ x \in C /\ DOMAIN r.copy = C
  BY <1>2, <1>9, Groups3 DEF Shape, Saved, HandlerRecord, RequestKinds, Client
<1>11. r.copy[x] \in Values
  BY <1>2, <1>10 DEF HandlerRecord, Partial
<1>12. OneUpload'
  BY <1>1, <1>2, <1>4, <1>7, <1>8, FilesKept, Zenon
<1>13. /\ live' \in [Keys -> Values] /\ shared' \in BOOLEAN
       /\ table \in [Keys -> Values \union {Absent}] /\ torn \in SUBSET Keys
  BY <1>8 DEF SettingsInv, SettingsTyped
<1>14. ASSUME NEW k \in C, k # x, table'[k] = table[k], Follows(r, k) PROVE Follows(s, k)'
  <2>1. Follows(s, k)
    BY <1>2, <1>4, <1>14 DEF Follows, SavesFirst, UpdatesFirst, Uploading, Saved
  <2> QED
    BY <1>8, <1>10, <1>14, <2>1, Untouched
<1>15. CASE table' = [table EXCEPT ![x] = handler[h].copy[x]] /\ UNCHANGED <<torn, faults>>
  <2>1. /\ table' \in [Keys -> Values \union {Absent}] /\ table'[x] = r.copy[x]
        /\ \A k \in Keys : k # x => table'[k] = table[k]
    BY <1>1, <1>11, <1>13, <1>15
  <2>2. ASSUME Follows(r, x) PROVE Follows(s, x)'
    <3>1. CASE r.kind = "upload"
      <4>1. x = "cert"
        BY <1>2, <3>1 DEF Shape, Saved
      <4> QED
        BY <1>2, <1>4, <1>8, <2>1, <2>2, <3>1, <4>1 DEF Follows, UpdatesFirst, Uploading
    <3>2. CASE r.kind # "upload"
      BY <1>2, <1>4, <1>8, <2>1, <2>2, <3>2 DEF Follows, SavesFirst, Plausible
    <3> QED
      BY <3>1, <3>2
  <2>3. \A k \in C : Follows(r, k) => Follows(s, k)'
    BY <1>10, <1>14, <2>1, <2>2
  <2>4. /\ torn \subseteq torn' /\ torn' \in SUBSET Keys
        /\ \A k \in Keys \ C : live'[k] = live[k] /\ table'[k] = table[k]
    BY <1>8, <1>10, <1>13, <1>15, <2>1
  <2> QED
    BY <1>1, <1>2, <1>4, <1>5, <1>6, <1>7, <1>8, <1>9, <1>12, <1>13, <2>1, <2>3, <2>4, HandlerStep, Zenon
<1>16. CASE Fault /\ torn' = torn \union {x} /\ UNCHANGED table
  <2>1. \A k \in C : k \notin torn' /\ Follows(r, k) => Follows(s, k)'
    BY <1>14, <1>16
  <2>2. /\ torn \subseteq torn' /\ torn' \in SUBSET Keys
        /\ table' \in [Keys -> Values \union {Absent}]
        /\ \A k \in Keys \ C : live'[k] = live[k] /\ table'[k] = table[k]
    BY <1>8, <1>13, <1>16
  <2> QED
    BY <1>1, <1>2, <1>4, <1>5, <1>6, <1>7, <1>8, <1>9, <1>12, <1>13, <2>1, <2>2, HandlerStep, Zenon
<1> QED
  BY <1>15, <1>16, Zenon DEF SetSetting

\* A handler that ends leaves its keys as a start would find them.
LEMMA EndsSame ==
  ASSUME NEW k \in Keys, table'[k] = live'[k], live'[k] \in Values, yaml' = yaml,
         Plausible(k, live'[k]), k = "rate" => live'[k] # 0
  PROVE  Same(k)'
<1>1. Effective(k, table'[k], yaml'[k]) = Norm(k, live'[k])
  BY SavedCounts
<1> QED
  BY <1>1, RestoredAt DEF Same, Norm

LEMMA AllSavedSafe ==
  ASSUME SettingsInv, NEW h \in Handlers, AllSaved(h) PROVE SettingsInv'
<1>1. PICK r : r = handler[h]
  OBVIOUS
<1>2. r # Free /\ Shape(r) /\ r \in HandlerRecord /\ r.at = "save" /\ r.left = {}
  BY <1>1, HandlerFields DEF AllSaved, HandlerRecord
<1>3. UNCHANGED <<live, table, yaml, torn, tmp, dest, shared>>
  BY DEF AllSaved, files
<1>4. PICK s : s = IF r.kind = "upload" THEN Free ELSE [r EXCEPT !.at = "update"]
  BY Zenon
<1>5. handler' = [handler EXCEPT ![h] = s]
  BY <1>1, <1>2, <1>4 DEF AllSaved, Set, After
<1>6. PICK C : C = Group(r.kind)
  OBVIOUS
<1>7. C \subseteq Keys /\ DOMAIN r.copy = C
  BY <1>2, <1>6, Groups3 DEF Shape, HandlerRecord
<1>8. /\ live' \in [Keys -> Values] /\ shared' \in BOOLEAN /\ torn' \in SUBSET Keys
      /\ table' \in [Keys -> Values \union {Absent}]
      /\ \A k \in Keys : live'[k] = live[k] /\ table'[k] = table[k]
  BY <1>3 DEF SettingsInv, SettingsTyped
<1>9. CASE r.kind = "upload"
  <2>1. s = Free /\ s \in HandlerState
    BY <1>4, <1>9 DEF HandlerState
  <2>2. ASSUME NEW k \in C, Follows(r, k) PROVE Same(k)'
    <3>1. CASE k # "cert"
      <4>1. Same(k)
        BY <1>9, <2>2, <3>1 DEF Follows, UpdatesFirst
      <4> QED
        BY <1>3, <1>7, <4>1, Untouched
    <3>2. CASE k = "cert"
      <4>1. table[k] = live[k] /\ live[k] # 0
        BY <1>2, <1>9, <2>2, <3>2 DEF Follows, UpdatesFirst
      <4> QED
        BY <1>3, <1>7, <1>8, <3>2, <4>1, EndsSame DEF Plausible
    <3> QED
      BY <3>1, <3>2
  <2>3. OneUpload'
    BY <1>1, <1>2, <1>3, <1>5, <2>1, FilesKept, Zenon
  <2> QED
    BY <1>1, <1>2, <1>3, <1>5, <1>6, <1>8, <2>1, <2>2, <2>3, HandlerStep, Zenon
<1>10. CASE r.kind # "upload"
  <2>1. /\ s \in HandlerState /\ s # Free /\ s.at = "update" /\ s.kind = r.kind
        /\ s.given = r.given /\ s.copy = r.copy /\ s.left = r.left
    BY <1>2, <1>4, <1>10, MovedTo DEF HandlerRecord, Steps
  <2>2. Shape(s)
    BY <1>2, <1>10, <2>1 DEF Shape, Uploading
  <2>3. ASSUME NEW k \in C, Follows(r, k) PROVE Follows(s, k)'
    <3>1. Follows(s, k)
      BY <1>2, <1>7, <1>10, <2>1, <2>3 DEF Follows, SavesFirst
    <3> QED
      BY <1>3, <1>7, <3>1, Untouched
  <2>4. OneUpload'
    BY <1>1, <1>2, <1>3, <1>5, <2>1, FilesKept, Zenon
  <2> QED
    BY <1>1, <1>2, <1>3, <1>5, <1>6, <1>8, <2>1, <2>2, <2>3, <2>4, HandlerStep, Zenon
<1> QED
  BY <1>9, <1>10

LEMMA Replaced ==
  ASSUME NEW f \in [Keys -> Values], NEW c, NEW S \in SUBSET Keys, \A k \in S : c[k] \in Values
  PROVE  /\ Over(f, Normal(Part(c, S))) \in [Keys -> Values]
         /\ \A k \in Keys : Over(f, Normal(Part(c, S)))[k] = IF k \in S THEN Norm(k, c[k]) ELSE f[k]
<1>1. /\ DOMAIN Normal(Part(c, S)) = S
      /\ \A k \in S : Normal(Part(c, S))[k] = Norm(k, c[k])
  BY DEF Normal, Part, Norm
<1>2. \A k \in S : Norm(k, c[k]) \in Values
  BY DEF Norm, Values, DefaultRate
<1> QED
  BY <1>1, <1>2 DEF Over

LEMMA UpdateConfigSafe ==
  ASSUME SettingsInv, NEW h \in Handlers, Update(h) PROVE SettingsInv'
<1>1. PICK r : r = handler[h]
  OBVIOUS
<1>2. r # Free /\ Shape(r) /\ r \in HandlerRecord /\ r.at = "update"
  BY <1>1, HandlerFields DEF Update, HandlerRecord
<1>3. UNCHANGED <<table, yaml, torn, tmp, dest, shared>>
  BY DEF Update, files
<1>4. PICK C : C = Group(r.kind)
  OBVIOUS
<1>5. C \subseteq Keys /\ DOMAIN r.copy \subseteq C
  BY <1>2, <1>4, Groups3 DEF Shape, HandlerRecord
<1>6. \A k \in DOMAIN r.copy : r.copy[k] \in Values
  BY <1>2 DEF HandlerRecord, Partial
<1>7. /\ live \in [Keys -> Values] /\ shared' \in BOOLEAN /\ torn' \in SUBSET Keys
      /\ table' \in [Keys -> Values \union {Absent}]
      /\ \A k \in Keys : table'[k] = table[k] /\ yaml'[k] = yaml[k]
  BY <1>3 DEF SettingsInv, SettingsTyped
<1>8. CASE "rate" \in DOMAIN r.copy
  <2>1. r.kind = "tak" /\ C = Client \union Publisher /\ DOMAIN r.copy = C
    BY <1>2, <1>4, <1>8, Groups3 DEF Shape, HandlerRecord, RequestKinds, Client, Telegram
  <2>2. live' = Over(live, Normal(Part(r.copy, Publisher)))
    BY <1>1, <1>8 DEF Update
  <2>3. /\ live' \in [Keys -> Values]
        /\ \A k \in Keys : live'[k] = IF k = "rate" THEN Norm(k, r.copy[k]) ELSE live[k]
    <3>1. Publisher \in SUBSET Keys /\ \A k \in Publisher : r.copy[k] \in Values
      BY <1>6, <1>8 DEF Publisher, Keys
    <3>2. /\ live' \in [Keys -> Values]
          /\ \A k \in Keys : live'[k] = IF k \in Publisher THEN Norm(k, r.copy[k]) ELSE live[k]
      BY <1>7, <2>2, <3>1, Replaced
    <3> QED
      BY <3>2 DEF Publisher
  <2>4. PICK c : c = Part(r.copy, DOMAIN r.copy \ Publisher)
    OBVIOUS
  <2>5. DOMAIN c = Client /\ (\A k \in Client : c[k] = r.copy[k]) /\ c \in Partial
    <3>1. DOMAIN r.copy \ Publisher = Client
      BY <2>1 DEF Client, Publisher
    <3>2. c = [k \in Client |-> r.copy[k]]
      BY <2>4, <3>1 DEF Part
    <3>3. c \in [Client -> Values]
      BY <1>6, <2>1, <3>2
    <3> QED
      BY <3>2, <3>3 DEF Partial, Keys
  <2>6. PICK s : s = [r EXCEPT !.copy = c]
    BY Zenon
  <2>7. /\ s \in HandlerRecord /\ s.at = "update" /\ s.kind = "tak"
        /\ s.given = r.given /\ s.copy = c /\ s.left = r.left
    BY <1>2, <2>1, <2>5, <2>6 DEF HandlerRecord
  <2>8. s \in HandlerState /\ s # Free
    BY <2>7 DEF HandlerState, HandlerRecord, Free
  <2>9. handler' = [handler EXCEPT ![h] = s]
    BY <1>1, <1>8, <2>4, <2>6 DEF Update, Set
  <2>10. Shape(s)
    BY <1>2, <2>5, <2>7 DEF Shape, Uploading
  <2>11. ASSUME NEW k \in C, Follows(r, k) PROVE Follows(s, k)'
    <3>1. CASE k = "rate"
      <4>1. table'[k] = r.copy[k] /\ r.copy[k] \in Values
        BY <1>2, <1>6, <1>7, <1>8, <2>1, <2>11, <3>1 DEF Follows, SavesFirst, Keys
      <4>2. Effective(k, table'[k], yaml'[k]) = Norm(k, r.copy[k])
        BY <3>1, <4>1 DEF Effective, Texts, Values, Absent
      <4>3. Same(k)'
        BY <1>5, <2>3, <3>1, <4>2, RestoredAt DEF Same
      <4>4. k \notin DOMAIN s.copy
        BY <2>5, <2>7, <3>1 DEF Client
      <4> QED
        BY <2>7, <4>3, <4>4 DEF Follows, SavesFirst
    <3>2. CASE k # "rate"
      <4>1. k \in Client
        BY <2>1, <3>2 DEF Publisher
      <4>2. Follows(s, k)
        BY <1>2, <2>1, <2>5, <2>7, <2>11, <4>1 DEF Follows, SavesFirst
      <4> QED
        BY <1>5, <1>7, <2>3, <3>2, <4>2, Untouched
    <3> QED
      BY <3>1, <3>2
  <2>12. OneUpload'
    BY <1>1, <1>2, <1>3, <2>1, <2>7, <2>9, FilesKept, Zenon
  <2>13. torn \subseteq torn' /\ \A k \in Keys \ C : live'[k] = live[k] /\ table'[k] = table[k]
    BY <1>3, <1>7, <2>1, <2>3 DEF Publisher
  <2> QED
    BY Zenon, <1>1, <1>2, <1>3, <1>4, <1>7, <2>1, <2>3, <2>7, <2>8, <2>9, <2>10, <2>11, <2>12, <2>13,
       HandlerStep
<1>9. CASE "rate" \notin DOMAIN r.copy
  <2>1. DOMAIN r.copy \in {Telegram, Client} /\ C \subseteq DOMAIN r.copy \union Publisher
    BY <1>2, <1>4, <1>9, Groups3 DEF Shape, HandlerRecord, RequestKinds, Publisher
  <2>2. live' = Over(live, Normal(Part(r.copy, DOMAIN r.copy)))
    BY <1>1, <1>9 DEF Update
  <2>3. /\ live' \in [Keys -> Values]
        /\ \A k \in Keys : live'[k] = IF k \in DOMAIN r.copy THEN r.copy[k] ELSE live[k]
    <3>1. /\ live' \in [Keys -> Values]
          /\ \A k \in Keys : live'[k] = IF k \in DOMAIN r.copy THEN Norm(k, r.copy[k]) ELSE live[k]
      BY <1>5, <1>6, <1>7, <2>2, Replaced
    <3> QED
      BY <1>9, <3>1 DEF Norm
  <2>4. DOMAIN r.copy # Publisher
    BY <1>9 DEF Publisher
  <2>5. PICK s : s = IF r.kind = "upload" THEN [r EXCEPT !.at = "save"] ELSE Free
    BY Zenon
  <2>6. handler' = [handler EXCEPT ![h] = s]
    BY <1>1, <1>2, <1>9, <2>4, <2>5 DEF Update, Set, After
  <2>7. torn \subseteq torn' /\ \A k \in Keys \ C : live'[k] = live[k] /\ table'[k] = table[k]
    BY <1>3, <1>5, <1>7, <2>3
  <2>8. CASE r.kind = "upload"
    <3>1. /\ s \in HandlerState /\ s # Free /\ s.at = "save" /\ s.kind = r.kind
          /\ s.given = r.given /\ s.copy = r.copy /\ s.left = r.left
      BY <1>2, <2>5, <2>8, MovedTo DEF HandlerRecord, Steps
    <3>2. Shape(s)
      BY <1>2, <2>8, <3>1, Groups3 DEF Shape, Uploading
    <3>3. C = Client /\ DOMAIN r.copy = Client /\ r.left = {"cert"}
      BY <1>2, <1>4, <2>8, Groups3 DEF Shape, Saved
    <3>4. ASSUME NEW k \in C, Follows(r, k) PROVE Follows(s, k)'
      <4>1. live'[k] = r.copy[k]
        BY <1>5, <2>3, <3>3
      <4>2. CASE k = "cert"
        BY <1>2, <2>8, <3>1, <3>3, <3>4, <4>1, <4>2 DEF Follows, UpdatesFirst, Uploading
      <4>3. CASE k # "cert"
        <5>1. Same(k) /\ live'[k] = live[k]
          BY <1>2, <2>8, <3>4, <4>1, <4>3 DEF Follows, UpdatesFirst
        <5>2. Same(k)'
          BY <1>5, <1>7, <5>1, Untouched
        <5> QED
          BY <2>8, <3>1, <4>3, <5>2 DEF Follows, UpdatesFirst
      <4> QED
        BY <4>2, <4>3
    <3>5. OneUpload'
      BY <1>1, <1>2, <1>3, <2>6, <3>1, FilesKept, Zenon
    <3> QED
      BY <1>1, <1>2, <1>3, <1>4, <1>7, <2>3, <2>6, <2>7, <3>1, <3>2, <3>4, <3>5, HandlerStep, Zenon
  <2>9. CASE r.kind # "upload"
    <3>1. s = Free /\ s \in HandlerState
      BY <2>5, <2>9 DEF HandlerState
    <3>2. ASSUME NEW k \in C, Follows(r, k) PROVE Same(k)'
      <4>1. CASE k \in DOMAIN r.copy
        BY <1>2, <1>3, <1>5, <1>6, <1>7, <1>9, <2>3, <2>9, <3>2, <4>1, EndsSame
           DEF Follows, SavesFirst
      <4>2. CASE k \notin DOMAIN r.copy
        <5>1. Same(k) /\ live'[k] = live[k]
          BY <1>2, <1>5, <2>3, <2>9, <3>2, <4>2, Zenon DEF Follows, SavesFirst
        <5> QED
          BY <1>5, <1>7, <5>1, Untouched
      <4> QED
        BY <4>1, <4>2
    <3>3. OneUpload'
      BY <1>1, <1>2, <1>3, <2>6, <3>1, FilesKept, Zenon
    <3> QED
      BY <1>1, <1>2, <1>3, <1>4, <1>7, <2>3, <2>6, <2>7, <3>1, <3>2, <3>3, HandlerStep, Zenon
  <2> QED
    BY <2>8, <2>9
<1> QED
  BY <1>8, <1>9

LEMMA ReadSafe ==
  ASSUME SettingsInv, NEW h \in Handlers, Read(h) PROVE SettingsInv'
<1>1. PICK r : r = handler[h]
  OBVIOUS
<1>2. r # Free /\ Shape(r) /\ r \in HandlerRecord /\ r.at = "read"
  BY <1>1, HandlerFields DEF Read, HandlerRecord
<1>3. UNCHANGED <<live, table, yaml, torn, tmp, dest, shared>>
  BY DEF Read, files
<1>4. PICK C : C = Group(r.kind)
  OBVIOUS
<1>5. C \subseteq Keys
  BY <1>2, <1>4, Groups3 DEF HandlerRecord
<1>6. /\ live \in [Keys -> Values] /\ live' \in [Keys -> Values]
      /\ shared' \in BOOLEAN /\ torn' \in SUBSET Keys
      /\ table' \in [Keys -> Values \union {Absent}] /\ torn \subseteq torn'
      /\ \A k \in Keys : live'[k] = live[k] /\ table'[k] = table[k] /\ yaml'[k] = yaml[k]
  BY <1>3 DEF SettingsInv, SettingsTyped
<1>7. /\ \A k \in DOMAIN r.copy : r.copy[k] \in Values
      /\ \A k \in DOMAIN r.given : r.given[k] \in Values
  BY <1>2 DEF HandlerRecord, Partial
<1>8. PICK chunk : chunk = IF r.kind = "tak" /\ r.copy = <<>> THEN Publisher ELSE C \ Publisher
  BY Zenon
<1>9. PICK c : c = [k \in chunk \union DOMAIN r.copy |-> IF k \in chunk THEN live[k] ELSE r.copy[k]]
  BY Zenon
<1>10. handler' = [handler EXCEPT ![h] =
                     IF DOMAIN c = C
                     THEN [r EXCEPT !.copy = Over(c, r.given),
                                    !.at = IF r.kind = "upload" THEN "update" ELSE "save"]
                     ELSE [r EXCEPT !.copy = c]]
  BY <1>1, <1>4, <1>8, <1>9, Zenon DEF Read, Set
<1>11. CASE r.kind = "tak" /\ r.copy = <<>>
  <2>1. chunk = Publisher /\ C = Client \union Publisher /\ DOMAIN r.copy = {}
    BY <1>4, <1>8, <1>11, Groups3
  <2>2. DOMAIN c = Publisher /\ \A k \in Publisher : c[k] = live[k]
    BY <1>9, <2>1
  <2>3. DOMAIN c # C
    BY <2>1, <2>2 DEF Publisher, Client
  <2>4. c \in Partial
    <3>1. c = [k \in Publisher |-> live[k]]
      BY <1>9, <2>1
    <3>2. c \in [Publisher -> Values] /\ Publisher \in SUBSET Keys
      BY <1>6, <3>1 DEF Publisher, Keys
    <3> QED
      BY <3>2 DEF Partial
  <2>5. PICK s : s = [r EXCEPT !.copy = c]
    BY Zenon
  <2>6. /\ s \in HandlerRecord /\ s.at = "read" /\ s.kind = "tak"
        /\ s.given = r.given /\ s.copy = c /\ s.left = r.left
    BY <1>2, <1>11, <2>4, <2>5 DEF HandlerRecord
  <2>7. s \in HandlerState /\ s # Free
    BY <2>6 DEF HandlerState, HandlerRecord, Free
  <2>8. handler' = [handler EXCEPT ![h] = s]
    BY <1>10, <2>3, <2>5
  <2>9. Shape(s)
    BY <1>2, <1>11, <2>2, <2>6, Zenon DEF Shape, Uploading
  <2>10. ASSUME NEW k \in C, Follows(r, k) PROVE Follows(s, k)'
    <3>1. Follows(s, k)
      BY <1>2, <1>11, <2>2, <2>6, <2>10, Zenon DEF Follows, SavesFirst
    <3> QED
      BY <1>5, <1>6, <3>1, Untouched, Zenon
  <2>11. OneUpload'
    BY <1>1, <1>2, <1>3, <1>11, <2>6, <2>8, FilesKept, Zenon
  <2> QED
    BY <1>1, <1>2, <1>3, <1>4, <1>6, <1>11, <2>6, <2>7, <2>8, <2>9, <2>10, <2>11, HandlerStep, Zenon
<1>12. CASE ~(r.kind = "tak" /\ r.copy = <<>>)
  <2>1. chunk = C \ Publisher
    BY <1>8, <1>12
  <2>2. chunk \union DOMAIN r.copy = C
    <3>1. CASE r.copy = <<>>
      <4>1. r.kind \in {"telegram", "upload"} /\ DOMAIN r.copy = {}
        BY <1>2, <1>12, <3>1 DEF HandlerRecord, RequestKinds
      <4>2. C \intersect Publisher = {}
        BY <1>4, <4>1, Groups3 DEF Telegram, Client, Publisher
      <4> QED
        BY <2>1, <4>1, <4>2
    <3>2. CASE r.copy # <<>>
      <4>1. r.kind = "tak" /\ DOMAIN r.copy = Publisher
        BY <1>2, <3>2 DEF Shape
      <4> QED
        BY <1>4, <2>1, <4>1, Groups3
    <3> QED
      BY <3>1, <3>2
  <2>3. DOMAIN c = C /\ \A k \in C : c[k] = IF k \in chunk THEN live[k] ELSE r.copy[k]
    BY <1>9, <2>2
  <2>4. \A k \in C : c[k] \in Values
    BY <1>5, <1>6, <1>7, <2>2, <2>3
  <2>5. PICK o : o = Over(c, r.given)
    OBVIOUS
  <2>6. DOMAIN o = C /\ \A k \in C : o[k] = IF k \in DOMAIN r.given THEN r.given[k] ELSE c[k]
    BY <2>3, <2>5 DEF Over
  <2>7. o \in Partial
    <3>1. o = [k \in C |-> o[k]]
      BY <2>3, <2>5 DEF Over
    <3>2. \A k \in C : o[k] \in Values
      BY <1>7, <2>4, <2>6
    <3>3. o \in [C -> Values]
      BY <3>1, <3>2
    <3> QED
      BY <1>5, <3>3 DEF Partial
  <2>8. PICK s : s = [r EXCEPT !.copy = o, !.at = IF r.kind = "upload" THEN "update" ELSE "save"]
    OBVIOUS
  <2>9. /\ s \in HandlerRecord /\ s.at = (IF r.kind = "upload" THEN "update" ELSE "save")
        /\ s.kind = r.kind /\ s.given = r.given /\ s.copy = o /\ s.left = r.left
    BY <1>2, <2>7, <2>8, Zenon DEF HandlerRecord, Steps
  <2>10. s \in HandlerState /\ s # Free
    BY <2>9 DEF HandlerState, HandlerRecord, Free
  <2>11. handler' = [handler EXCEPT ![h] = s]
    BY <1>10, <2>3, <2>5, <2>8
  <2>12. Shape(s)
    BY <1>2, <1>4, <2>6, <2>9 DEF Shape, Uploading
  <2>13. ASSUME NEW k \in C, Follows(r, k) PROVE Follows(s, k)'
    <3>1. Same(k) /\ c[k] = live[k] /\ k \in Keys
      <4>1. CASE r.kind = "upload"
        <5>1. k \in chunk
          BY <1>2, <2>2, <4>1 DEF Shape
        <5> QED
          BY <1>2, <1>5, <2>3, <2>13, <4>1, <5>1, Zenon DEF Follows, UpdatesFirst, Uploading
      <4>2. CASE r.kind # "upload"
        BY <1>2, <1>5, <2>2, <2>3, <2>13, <4>2 DEF Follows, SavesFirst
      <4> QED
        BY <4>1, <4>2
    <3>2. k \in Texts /\ live[k] = 0 => yaml[k] = 0
      BY <3>1, RestoredAt, Zenon DEF Same, Effective, Norm, Texts, Absent
    <3>3. CASE r.kind = "upload"
      <4>1. s.left = {"cert"} /\ DOMAIN r.given = {"cert"} /\ (k = "cert" => r.given[k] # 0)
        BY <1>2, <2>9, <3>3, SMTT(30) DEF Shape, Saved, Texts
      <4>2. Follows(s, k)
        BY <2>6, <2>9, <3>1, <3>3, <4>1 DEF Follows, UpdatesFirst, Uploading
      <4> QED
        BY <1>6, <3>1, <4>2, Untouched
    <3>4. CASE r.kind # "upload"
      <4>1. s.left = C
        BY <1>2, <1>4, <2>9, <3>4, Zenon DEF Shape, Saved
      <4>2. Plausible(k, o[k])
        BY <1>2, <2>6, <3>1, <3>2 DEF Plausible, Shape
      <4>3. Follows(s, k)
        BY <2>9, <3>1, <3>4, <4>1, <4>2 DEF Follows, SavesFirst
      <4> QED
        BY <1>6, <3>1, <4>3, Untouched
    <3> QED
      BY <3>3, <3>4
  <2>14. OneUpload'
    BY <1>1, <1>2, <1>3, <2>9, <2>11, FilesKept, Zenon
  <2> QED
    BY <1>1, <1>2, <1>3, <1>4, <1>6, <2>9, <2>10, <2>11, <2>12, <2>13, <2>14, HandlerStep, Zenon
<1> QED
  BY <1>11, <1>12

LEMMA PostSafe ==
  ASSUME SettingsInv, NEW h \in Handlers, NEW kind \in RequestKinds, NEW x \in Keys,
         NEW v \in Values, Post(h, kind, x, v)
  PROVE  SettingsInv'
<1>1. PICK s : s = [at |-> IF kind = "upload" THEN "write" ELSE "read", kind |-> kind,
                    given |-> Given(x, v), copy |-> <<>>, left |-> Saved(kind)]
  BY Zenon
<1>2. PICK C : C = Group(kind)
  OBVIOUS
<1>3. C \subseteq Keys /\ Saved(kind) \subseteq C
  BY <1>2, Groups3 DEF Saved, Client, RequestKinds
<1>4. Given(x, v) \in Partial /\ <<>> \in Partial
  <2>1. <<>> \in [{} -> Values]
    OBVIOUS
  <2>2. [y \in {x} |-> v] \in [{x} -> Values]
    OBVIOUS
  <2>3. <<>> \in Partial
    BY <2>1, Zenon DEF Partial
  <2>4. [y \in {x} |-> v] \in Partial
    BY <2>2, Zenon DEF Partial
  <2> QED
    BY <2>3, <2>4 DEF Given
<1>5. /\ s \in HandlerRecord /\ s.kind = kind /\ s.given = Given(x, v) /\ s.copy = <<>>
      /\ s.at = (IF kind = "upload" THEN "write" ELSE "read") /\ s.left = Saved(kind)
  BY <1>1, <1>3, <1>4 DEF HandlerRecord, Steps, Uploading
<1>6. s \in HandlerState /\ s # Free
  BY <1>5 DEF HandlerState, HandlerRecord, Free
<1>7. Shape(s)
  <2>1. \A k \in DOMAIN s.given : k \in Texts => s.given[k] # 0
    BY <1>5 DEF Given
  <2>2. kind = "upload" => DOMAIN s.given = {"cert"}
    <3>1. kind = "upload" => x = "cert" /\ v # 0
      BY DEF Post, Named
    <3> QED
      BY <1>5, <3>1 DEF Given
  <2> QED
    BY <1>5, <2>1, <2>2 DEF Shape, Uploading
<1>8. /\ handler[h] = Free /\ handler' = [handler EXCEPT ![h] = s]
      /\ UNCHANGED <<live, table, yaml, tmp, dest>>
  BY <1>1 DEF Post, Set
<1>9. \A g \in Handlers : handler'[g] = IF g = h THEN s ELSE handler[g]
  BY <1>8 DEF SettingsInv, SettingsTyped
<1>10. /\ torn \subseteq torn' /\ torn' \subseteq Keys
       /\ \A g \in Handlers : handler[g] # Free /\ Group(handler[g].kind) \intersect C # {} =>
            C \union Group(handler[g].kind) \subseteq torn'
  <2>1. PICK others : others = {g \in Active : Group(handler[g].kind) \intersect C # {}}
    BY Zenon
  <2>2. torn' = IF others = {} THEN torn
                ELSE torn \union C \union UNION {Group(handler[g].kind) : g \in others}
    BY <1>2, <2>1 DEF Post
  <2>3. \A g \in others : Group(handler[g].kind) \subseteq Keys
    <3>1. \A g \in others : g \in Handlers /\ handler[g] # Free
      BY <2>1 DEF Active
    <3>2. \A g \in others : handler[g].kind \in RequestKinds
      BY <3>1 DEF SettingsInv, SettingsTyped, HandlerState
    <3> QED
      BY <3>2, Groups3
  <2>4. torn \subseteq Keys
    BY DEF SettingsInv, SettingsTyped
  <2>5. UNION {Group(handler[g].kind) : g \in others} \subseteq Keys
    BY <2>3
  <2>6. \A g \in others :
          Group(handler[g].kind) \subseteq UNION {Group(handler[f].kind) : f \in others}
    OBVIOUS
  <2>7. \A g \in Handlers : handler[g] # Free /\ Group(handler[g].kind) \intersect C # {} =>
          g \in others
    BY <2>1 DEF Active
  <2>8. \A g \in others : C \union Group(handler[g].kind) \subseteq torn'
    BY <2>2, <2>6
  <2> QED
    BY <1>3, <2>2, <2>4, <2>5, <2>7, <2>8
<1>11. SettingsTyped'
  <2>1. handler' \in [Handlers -> HandlerState]
    BY <1>6, <1>8, Zenon DEF SettingsInv, SettingsTyped
  <2>2. ASSUME NEW g \in Handlers, handler'[g] # Free PROVE Shape(handler[g])'
    <3>1. PICK r : r = handler'[g]
      OBVIOUS
    <3>2. Shape(r)
      BY <1>7, <1>9, <2>2, <3>1, Zenon DEF SettingsInv, SettingsTyped
    <3> QED
      BY <3>1, <3>2, Zenon DEF Shape
  <2>3. shared' \in BOOLEAN
    BY Zenon DEF Post, SettingsInv, SettingsTyped
  <2> QED
    BY <1>8, <1>10, <2>1, <2>2, <2>3 DEF SettingsInv, SettingsTyped
<1>12. Apart'
  <2> SUFFICES ASSUME NEW f \in Handlers, NEW g \in Handlers, NEW k \in Keys,
                      f # g, Covers(f, k)', Covers(g, k)'
               PROVE  Group(handler'[f].kind) \union Group(handler'[g].kind) \subseteq torn'
    BY Zenon DEF Apart
  <2>1. CASE f = h
    <3>1. handler'[f].kind = kind /\ handler'[g] = handler[g] /\ handler[g] # Free
          /\ k \in C /\ k \in Group(handler[g].kind)
      BY <1>2, <1>5, <1>9, <2>1, Zenon DEF Covers
    <3> QED
      BY <1>2, <1>10, <3>1, Zenon
  <2>2. CASE g = h
    <3>1. handler'[g].kind = kind /\ handler'[f] = handler[f] /\ handler[f] # Free
          /\ k \in C /\ k \in Group(handler[f].kind)
      BY <1>2, <1>5, <1>9, <2>2, Zenon DEF Covers
    <3> QED
      BY <1>2, <1>10, <3>1, Zenon
  <2>3. CASE f # h /\ g # h
    <3>1. handler'[f] = handler[f] /\ handler'[g] = handler[g] /\ Covers(f, k) /\ Covers(g, k)
      BY <1>9, <2>3, ZenonT(40) DEF Covers
    <3>2. Group(handler[f].kind) \union Group(handler[g].kind) \subseteq torn
      BY <3>1, SMTT(20) DEF SettingsInv, Apart
    <3> QED
      BY <1>10, <3>1, <3>2, Zenon
  <2> QED
    BY <2>1, <2>2, <2>3
<1>13. ASSUME NEW k \in C, k \notin torn' PROVE Follows(s, k)'
  <2>1. \A g \in Handlers : ~Covers(g, k)
    BY <1>10, <1>13 DEF Covers
  <2>2. Same(k)
    BY <1>3, <1>10, <1>13, <2>1, Zenon DEF SettingsInv, KeyInv
  <2>3. Follows(s, k)
    BY <1>5, <2>2 DEF Follows, SavesFirst, UpdatesFirst, Uploading
  <2> QED
    BY <1>3, <1>8, <2>3, Untouched
<1>14. \A k \in Keys : KeyInv(k)'
  BY <1>2, <1>3, <1>5, <1>6, <1>8, <1>10, <1>12, <1>13, OwnKeys, Zenon DEF Covers
<1>15. OneUpload'
  <2>1. shared' = (shared \/ (kind = "upload" /\ \E g \in Active : handler[g].kind = "upload"))
    BY DEF Post
  <2>2. OneUpload /\ s.at \notin {"rename", "direct"}
    BY <1>5 DEF SettingsInv
  <2>3. ASSUME ~shared'
        PROVE  ~shared /\ (kind = "upload" => \A g \in Handlers : handler[g] # Free =>
                             handler[g].kind # "upload")
    BY <2>1, <2>3, Zenon DEF Active
  <2> QED
    BY <1>5, <1>8, <1>9, <2>1, <2>2, <2>3 DEF OneUpload
<1> QED
  BY <1>11, <1>12, <1>14, <1>15 DEF SettingsInv

LEMMA RestartSafe ==
  ASSUME SettingsInv, Restart PROVE SettingsInv'
<1>1. PICK failed \in {UNION S : S \in SUBSET Groups} :
        live' = Over(Restored, Normal(Part(yaml, failed))) /\ torn' = failed
  BY DEF Restart
<1>2. failed \subseteq Keys
  BY <1>1 DEF Groups, Keys
<1>3. /\ table' = table /\ yaml' = yaml /\ tmp' = tmp /\ dest' = dest /\ shared' = shared
      /\ handler' = [h \in Handlers |-> Free]
  BY DEF Restart, files
<1>4. Restored \in [Keys -> Values]
  <2>1. \A k \in Keys : Effective(k, table[k], yaml[k]) \in Values
    BY DEF SettingsInv, SettingsTyped, Effective, Norm, Values, Absent, DefaultRate
  <2>2. Restored = [k \in Keys |-> Effective(k, table[k], yaml[k])]
    BY DEF Restored, Normal, Effective, Norm
  <2> QED
    BY <2>1, <2>2
<1>5. /\ live' \in [Keys -> Values]
      /\ \A k \in Keys : live'[k] = IF k \in failed THEN Norm(k, yaml[k]) ELSE Restored[k]
  <2>1. \A k \in failed : yaml[k] \in Values
    BY <1>2 DEF SettingsInv, SettingsTyped
  <2> QED
    BY <1>1, <1>2, <1>4, <2>1, Replaced
<1>6. SettingsTyped'
  BY <1>1, <1>2, <1>3, <1>5 DEF SettingsInv, SettingsTyped, HandlerState
<1>7. \A h \in Handlers, k \in Keys : ~Covers(h, k)'
  BY <1>3 DEF Covers
<1>8. Apart'
  BY <1>7 DEF Apart
<1>9. ASSUME NEW k \in Keys PROVE KeyInv(k)'
  <2>1. k \notin torn' => live'[k] = Restored'[k]
    BY <1>1, <1>3, <1>5, RestoredAt, Zenon
  <2> QED
    BY <1>7, <2>1, Zenon DEF KeyInv, Same
<1>10. OneUpload'
  BY <1>3 DEF SettingsInv, OneUpload
<1> QED
  BY <1>6, <1>8, <1>9, <1>10 DEF SettingsInv

\* handleTelegramStatus, handleTAKStatus, handleTAKUploadCert and main's restoration: when
\* no request is under way a restart brings back the values in use, but for keys that
\* requests changed at the same time or a statement failed for; and the certificate file
\* is whole unless uploads overlapped or a rename failed.  For any number of requests at
\* once, any failures and any restarts.
THEOREM SettingsAreKept == SettingsSpec => []SettingsKept
<1>1. SettingsInit => SettingsInv
  <2> SUFFICES ASSUME SettingsInit PROVE SettingsInv
    OBVIOUS
  <2>1. /\ table = [k \in Keys |-> Absent] /\ live = Restored /\ torn = {} /\ shared = FALSE
        /\ handler = [h \in Handlers |-> Free] /\ dest = "none" /\ yaml \in [Keys -> Values]
    BY DEF SettingsInit, Values
  <2>2. live \in [Keys -> Values]
    <3>1. \A k \in Keys : Effective(k, table[k], yaml[k]) \in Values
      BY <2>1 DEF Effective, Norm, Values, Absent, DefaultRate
    <3>2. Restored = [k \in Keys |-> Effective(k, table[k], yaml[k])]
      BY DEF Restored, Normal, Effective, Norm
    <3> QED
      BY <2>1, <3>1, <3>2
  <2>3. SettingsTyped
    BY <2>1, <2>2, Zenon DEF SettingsTyped, HandlerState
  <2>4. \A h \in Handlers, k \in Keys : ~Covers(h, k)
    BY <2>1 DEF Covers
  <2>5. Apart /\ \A k \in Keys : KeyInv(k)
    BY <2>1, <2>4 DEF Apart, KeyInv, Same
  <2>6. OneUpload
    BY <2>1 DEF OneUpload
  <2> QED
    BY <2>3, <2>5, <2>6 DEF SettingsInv
<1>2. SettingsInv /\ [SettingsNext]_settingsVars => SettingsInv'
  <2>1. ASSUME SettingsInv, UNCHANGED settingsVars PROVE SettingsInv'
    <3>1. /\ live' = live /\ table' = table /\ yaml' = yaml /\ handler' = handler
          /\ tmp' = tmp /\ dest' = dest /\ torn' = torn /\ shared' = shared
      BY <2>1, SMTT(30) DEF settingsVars
    <3>2. SettingsTyped'
      BY <2>1, <3>1, SMTT(30) DEF SettingsInv, SettingsTyped, Shape
    <3>3. Apart' /\ OneUpload'
      BY <2>1, <3>1 DEF SettingsInv, Apart, Covers, OneUpload
    <3>4. ASSUME NEW k \in Keys PROVE KeyInv(k)'
      <4>1. (Same(k)' <=> Same(k)) /\ \A r : Follows(r, k)' <=> Follows(r, k)
        BY <3>1, Untouched
      <4>2. ASSUME NEW h \in Handlers, Follows(handler[h], k) PROVE Follows(handler[h], k)'
        <5>1. PICK r : r = handler[h]
          OBVIOUS
        <5>2. Follows(r, k)'
          BY <4>1, <4>2, <5>1
        <5> QED
          BY <3>1, <5>1, <5>2
      <4> QED
        BY <2>1, <3>1, <4>1, <4>2 DEF SettingsInv, KeyInv, Covers
    <3> QED
      BY <3>2, <3>3, <3>4 DEF SettingsInv
  <2>2. ASSUME SettingsInv, SettingsNext PROVE SettingsInv'
    <3>1. CASE Restart
      BY <2>2, <3>1, RestartSafe
    <3>2. ASSUME NEW h \in Handlers,
                 NEW kind \in {"telegram", "tak", "upload"}, NEW k \in Keys, NEW v \in Values,
                 Post(h, kind, k, v)
          PROVE  SettingsInv'
      BY <2>2, <3>2, PostSafe DEF RequestKinds
    <3>3. ASSUME NEW h \in Handlers, NEW k \in Keys, SetSetting(h, k) PROVE SettingsInv'
      BY <2>2, <3>3, SaveSafe
    <3>4. ASSUME NEW h \in Handlers,
                 WriteBegins(h) \/ WriteEnds(h) \/ Rename(h) \/ RenameFails(h) \/ DirectEnds(h)
          PROVE  SettingsInv'
      BY <2>2, <3>4, FileSteps
    <3>5. ASSUME NEW h \in Handlers, Read(h) \/ AllSaved(h) \/ Update(h) PROVE SettingsInv'
      BY <2>2, <3>5, ReadSafe, AllSavedSafe, UpdateConfigSafe
    <3> QED
      BY <2>2, <3>1, <3>2, <3>3, <3>4, <3>5 DEF SettingsNext
  <2> QED
    BY <2>1, <2>2
<1>3. SettingsInv => SettingsKept
  <2> SUFFICES ASSUME SettingsInv PROVE RestartKeeps /\ CertWhole
    BY DEF SettingsKept
  <2>1. CertWhole
    BY DEF SettingsInv, OneUpload, CertWhole
  <2>2. ASSUME Active = {}, NEW k \in Keys \ torn PROVE Restored[k] = live[k]
    BY <2>2 DEF SettingsInv, KeyInv, Covers, Same, Active
  <2> QED
    BY <2>1, <2>2 DEF RestartKeeps
<1> QED
  BY <1>1, <1>2, <1>3, PTL DEF SettingsSpec

=============================================================================
