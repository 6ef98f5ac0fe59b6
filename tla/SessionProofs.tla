---- MODULE SessionProofs ----
(* Proofs about Session: what a timestamp promises, that a box keeps its value, and where
   a job works.

   The invariant is said of a tab, a job and the files one by one, with the files as
   arguments (TabOK, JobOK, FilesOK), so that the same lemma speaks of the files before
   and after a write. A write disturbs nobody, because its timestamp is later than all that
   anybody knows (WriteKeepsTab, WriteKeepsJob); what is left of each step is a tab and
   perhaps a job that have to be as good as before. *)
EXTENDS Session, FiniteSetTheorems, TLAPS

----
(* What is always true of a tab *)

\* The form as the person sees it: the boxes on the page, and what is kept behind them.
Now(s) == Over(s.widgets, s.form)

PathBox == Names \cup {Nowhere}
Form == [dir : PathBox, path : PathBox, approved : BOOLEAN, target : BOOLEAN,
         yaml : Config \cup {Blank, Broken}, stamp : Nat]
Fields == {"form", "widgets", "project", "page", "pc", "held", "edited", "overtaken", "intent"}

Shape(s) ==
  /\ DOMAIN s = Fields
  /\ s.form \in Form /\ Now(s) \in Form /\ DOMAIN s.widgets \subseteq Keys
  /\ s.project \in PathBox \cup {Uploads} /\ s.page \in {"setup", "run"}
  /\ s.pc \in {"idle", "begin", "reload", "opening", "saved", "reviewing"}
  /\ s.edited \in BOOLEAN /\ s.overtaken \in BOOLEAN /\ s.intent \in BOOLEAN

\* Between two script runs the setup page has a copy of every box, and no other page has
\* any; but for a callback that has just run, the copies say what the form says.
Settled(s) ==
  /\ s.pc # "begin" => Now(s) = s.form
  /\ s.pc \in {"idle", "opening", "reviewing"} =>
       DOMAIN s.widgets = IF s.page = "setup" THEN Keys ELSE {}
  /\ s.pc = "reviewing" => s.page = "run"

\* The form f and the files: what the timestamp promises.  An unedited form has a
\* timestamp for its path, so that a file is never noted without having been read.
Mtime(st, p) == IF p \in Names THEN st[p] ELSE 0
Honest(s, f, fl, st, ck) ==
  /\ f.approved = s.intent
  /\ f.stamp <= ck
  /\ ~s.edited /\ f.path # Nowhere => f.stamp # 0
  /\ ~s.edited /\ ~s.overtaken /\ f.stamp # 0 /\ f.stamp = Mtime(st, f.path) => f.yaml = fl[f.path]

\* What a script run holds between two accesses is what it read or wrote, as long as the
\* timestamp it knows is the file's.
Holding(s, f, fl, st, ck) ==
  LET h == s.held IN
  CASE s.pc = "reload" -> f.path \in Names /\ fl[f.path] # Missing /\ h.stamp \in 1..ck
    [] s.pc = "opening" ->
         /\ h.path \in PathBox /\ h.config \in Config \cup {Missing} /\ h.dir \in Names /\ h.read \in 0..ck
         /\ h.path \in Names => h.config # Missing /\ fl[h.path] # Missing
         /\ h.path \in Names /\ st[h.path] = h.read => fl[h.path] = h.config
    [] s.pc = "saved" ->
         /\ h.path \in Names /\ h.dir \in Names /\ h.wrote \in 1..ck /\ h.action \in {"save", "full"}
         /\ f.yaml \in Config /\ f.yaml.dir = h.dir
         /\ fl[h.path] # Missing /\ (st[h.path] = h.wrote => fl[h.path] = f.yaml)
    [] s.pc = "reviewing" ->
         h.path \in Names /\ h.dir \in Names /\ h.config \in Config /\ fl[h.path] # Missing
    [] OTHER -> TRUE

TabOK(s, fl, st, ck) ==
  Shape(s) /\ Settled(s) /\ Honest(s, Now(s), fl, st, ck) /\ Holding(s, Now(s), fl, st, ck)

----
(* What is always true of the files and the jobs *)

FilesOK(fl, st, ck) ==
  /\ fl \in [Names -> Config \cup {Missing}] /\ st \in [Names -> Nat] /\ ck \in Nat
  /\ \A n \in Names : st[n] <= ck /\ (st[n] = 0 <=> fl[n] = Missing)

Job == [path : PathBox, running : BOOLEAN, by : {"nobody", "setup", "run"}, wrote : Nat, into : PathBox, seen : Nat]

\* A job of the setup page is recorded where the config it was started with says.
JobOK(d, j, fl, st, ck) ==
  /\ j \in Job
  /\ j.running => j.path \in Names /\ fl[j.path] # Missing
  /\ j.by = "setup" =>
       /\ j.path \in Names /\ j.wrote \in 1..ck
       /\ st[j.path] = j.wrote => fl[j.path].dir = d
       /\ j.into # Nowhere /\ j.seen = j.wrote => j.into = d

Report == [path : PathBox, config : Config \cup {Missing}]
RestOK == review \subseteq Names /\ report \in [Names -> Report] /\ acts \in Nat

Inv ==
  /\ FilesOK(file, stamp, clock) /\ RestOK
  /\ DOMAIN tab = Tabs /\ \A t \in Tabs : TabOK(tab[t], file, stamp, clock)
  /\ DOMAIN job = Names /\ \A d \in Names : JobOK(d, job[d], file, stamp, clock)

----
(* Forms and tabs *)

FormKeys == Keys \cup {"stamp"}

LEMMA Merged ==
  ASSUME NEW f, NEW g
  PROVE  /\ DOMAIN Over(f, g) = DOMAIN f \cup DOMAIN g
         /\ \A k \in DOMAIN f : Over(f, g)[k] = f[k]
         /\ \A k \in DOMAIN g : k \notin DOMAIN f => Over(f, g)[k] = g[k]
  BY DEF Over

LEMMA CopiesAre ==
  ASSUME NEW s
  PROVE  \A k \in DOMAIN s.widgets : Now(s)[k] = s.widgets[k]
  BY Merged DEF Now

\* What a box may hold.
Fits(v) ==
  /\ DOMAIN v \subseteq FormKeys
  /\ "dir" \in DOMAIN v => v.dir \in PathBox
  /\ "path" \in DOMAIN v => v.path \in PathBox
  /\ "approved" \in DOMAIN v => v.approved \in BOOLEAN
  /\ "target" \in DOMAIN v => v.target \in BOOLEAN
  /\ "yaml" \in DOMAIN v => v.yaml \in Config \cup {Blank, Broken}
  /\ "stamp" \in DOMAIN v => v.stamp \in Nat

LEMMA FormIs ==
  ASSUME NEW f \in Form
  PROVE  /\ DOMAIN f = FormKeys /\ Fits(f)
         /\ f = [k \in FormKeys |-> f[k]]
  BY DEF Form, FormKeys, Keys, Fits

LEMMA FormBy ==
  ASSUME NEW g, g = [k \in FormKeys |-> g[k]], Fits(g)
  PROVE  g \in Form
  <1>1. DOMAIN g = {"dir", "path", "approved", "target", "yaml", "stamp"}
    BY DEF FormKeys, Keys
  <1>2. g = [dir |-> g.dir, path |-> g.path, approved |-> g.approved,
             target |-> g.target, yaml |-> g.yaml, stamp |-> g.stamp]
    BY DEF FormKeys, Keys
  <1>3. /\ g.dir \in PathBox /\ g.path \in PathBox /\ g.approved \in BOOLEAN /\ g.target \in BOOLEAN
        /\ g.yaml \in Config \cup {Blank, Broken} /\ g.stamp \in Nat
    BY <1>1 DEF Fits
  <1> QED BY <1>2, <1>3 DEF Form

LEMMA SameForm ==
  ASSUME NEW f \in Form, NEW g \in Form, \A k \in FormKeys : f[k] = g[k]
  PROVE  f = g
  BY FormIs

LEMMA FormOf ==
  ASSUME NEW v, NEW f \in Form, Fits(v)
  PROVE  /\ Over(v, f) \in Form
         /\ \A k \in FormKeys : Over(v, f)[k] = IF k \in DOMAIN v THEN v[k] ELSE f[k]
  <1>1. DOMAIN v \subseteq FormKeys /\ DOMAIN f = FormKeys
    BY FormIs DEF Fits
  <1>2. Over(v, f) = [k \in FormKeys |-> IF k \in DOMAIN v THEN v[k] ELSE f[k]]
    BY <1>1 DEF Over
  <1>3. Fits(Over(v, f))
    <2> DEFINE g == Over(v, f)
    <2>1. DOMAIN g = FormKeys /\ \A k \in FormKeys : g[k] = IF k \in DOMAIN v THEN v[k] ELSE f[k]
      BY <1>2
    <2>2. Fits(f)
      BY FormIs
    <2>3. {"dir", "path", "approved", "target", "yaml", "stamp"} = FormKeys
      BY DEF FormKeys, Keys
    <2> HIDE DEF g
    <2>4. Fits(g)
      BY <1>1, <2>1, <2>2, <2>3 DEF Fits
    <2> QED BY <2>4 DEF g
  <1>4. Over(v, f) = [k \in FormKeys |-> Over(v, f)[k]]
    BY <1>2
  <1> QED BY <1>2, <1>3, <1>4, FormBy

\* All but the place of the script run and what it holds, which Begin and Finish set.
Others == Fields \ {"form", "widgets"}

LEMMA CaptureIs ==
  ASSUME NEW s, Shape(s)
  PROVE  /\ Shape(Capture(s))
         /\ Capture(s).form = Now(s) /\ Now(Capture(s)) = Now(s)
         /\ \A k \in Fields : k # "form" => Capture(s)[k] = s[k]
  <1> DEFINE u == Capture(s)
  <1>1. /\ DOMAIN u = Fields /\ u.form = Now(s)
        /\ \A k \in Fields : k # "form" => u[k] = s[k]
    BY DEF Shape, Capture, Now, Fields
  <1>2. \A k \in Fields : k # "form" => u[k] = s[k]
    BY <1>1
  <1>3. u.widgets = s.widgets
    BY <1>2 DEF Fields
  <1>4. Now(u) = Now(s)
    <2>1. Now(u) = Over(s.widgets, Over(s.widgets, s.form))
      BY <1>1, <1>3 DEF Now
    <2>2. Over(s.widgets, Over(s.widgets, s.form)) = Over(s.widgets, s.form)
      BY DEF Over
    <2> QED BY <2>1, <2>2 DEF Now
  <1>5. Shape(u)
    BY <1>1, <1>2, <1>3, <1>4 DEF Shape, Fields
  <1> QED BY <1>1, <1>4, <1>5

LEMMA SetFormIs ==
  ASSUME NEW s, Shape(s), NEW v, Fits(v)
  PROVE  /\ Shape(SetForm(s, v))
         /\ \A k \in FormKeys : Now(SetForm(s, v))[k] = IF k \in DOMAIN v THEN v[k] ELSE Now(s)[k]
         /\ \A k \in FormKeys : SetForm(s, v).form[k] = IF k \in DOMAIN v THEN v[k] ELSE s.form[k]
         /\ \A k \in Fields \ {"form", "widgets"} : SetForm(s, v)[k] = s[k]
         /\ Now(s) = s.form => Now(SetForm(s, v)) = SetForm(s, v).form
  <1> DEFINE u == SetForm(s, v)
  <1>1. /\ DOMAIN u = Fields /\ u.form = Over(v, s.form)
        /\ u.widgets = Only(s.widgets, DOMAIN s.widgets \ DOMAIN v)
        /\ \A k \in Fields \ {"form", "widgets"} : u[k] = s[k]
    BY DEF Shape, SetForm, Fields
  <1>2. u.form \in Form /\ \A k \in FormKeys : u.form[k] = IF k \in DOMAIN v THEN v[k] ELSE s.form[k]
    BY <1>1, FormOf DEF Shape
  <1>3. /\ DOMAIN u.widgets = DOMAIN s.widgets \ DOMAIN v
        /\ \A k \in DOMAIN u.widgets : u.widgets[k] = s.widgets[k]
    BY <1>1 DEF Only
  <1>4. Now(s) \in Form /\ s.form \in Form /\ DOMAIN s.widgets \subseteq Keys /\ Keys \subseteq FormKeys
    BY DEF Shape, FormKeys
  <1>5. \A k \in FormKeys : Now(s)[k] = IF k \in DOMAIN s.widgets THEN s.widgets[k] ELSE s.form[k]
    BY <1>4, FormIs DEF Now, Over
  <1>6. /\ Now(u) = [k \in FormKeys |-> IF k \in DOMAIN u.widgets THEN u.widgets[k] ELSE u.form[k]]
        /\ \A k \in FormKeys : Now(u)[k] = IF k \in DOMAIN v THEN v[k] ELSE Now(s)[k]
    <2>1. DOMAIN u.form = FormKeys /\ DOMAIN u.widgets \subseteq FormKeys
      BY <1>2, <1>3, <1>4, FormIs
    <2>2. Now(u) = [k \in FormKeys |-> IF k \in DOMAIN u.widgets THEN u.widgets[k] ELSE u.form[k]]
      BY <2>1 DEF Now, Over
    <2> HIDE DEF u
    <2>3. \A k \in FormKeys : Now(u)[k] = IF k \in DOMAIN u.widgets THEN u.widgets[k] ELSE u.form[k]
      BY <2>2
    <2>4. \A k \in FormKeys : Now(u)[k] = IF k \in DOMAIN v THEN v[k] ELSE Now(s)[k]
      BY <2>3, <1>2, <1>3, <1>5
    <2> QED BY <2>2, <2>4
  <1>7. Now(u) \in Form
    <2>1. Over(v, Now(s)) \in Form /\ \A k \in FormKeys : Over(v, Now(s))[k] = IF k \in DOMAIN v THEN v[k] ELSE Now(s)[k]
      BY <1>4, FormOf
    <2>2. DOMAIN Over(v, Now(s)) = FormKeys
      BY <2>1, FormIs
    <2>3. Over(v, Now(s)) = [k \in FormKeys |-> Over(v, Now(s))[k]]
      BY <2>1, FormIs
    <2>4. Now(u) = [k \in FormKeys |-> Now(u)[k]]
      BY <1>6
    <2>5. Now(u) = Over(v, Now(s))
      BY <2>1, <2>3, <2>4, <1>6
    <2> QED BY <2>1, <2>5
  <1>8. Shape(u)
    <2>1. \A k \in Fields \ {"form", "widgets"} : u[k] = s[k]
      BY <1>1
    <2>2. DOMAIN u.widgets \subseteq Keys
      BY <1>3, <1>4
    <2>3. u.project = s.project /\ u.page = s.page /\ u.pc = s.pc /\ u.edited = s.edited
          /\ u.overtaken = s.overtaken /\ u.intent = s.intent
      BY <2>1 DEF Fields
    <2> HIDE DEF u
    <2> QED BY <1>1, <1>2, <1>7, <2>2, <2>3 DEF Shape
  <1>9. Now(s) = s.form => Now(u) = u.form
    BY <1>6, <1>2, <1>7, SameForm
  <1> QED BY <1>1, <1>2, <1>6, <1>8, <1>9

LEMMA ReplaceFormIs ==
  ASSUME NEW s, Shape(s), NEW v, Fits(v)
  PROVE  /\ Shape(ReplaceForm(s, v))
         /\ Now(ReplaceForm(s, v)) = Over(v, EmptyForm)
         /\ \A k \in Fields \ {"form", "widgets"} : ReplaceForm(s, v)[k] = s[k]
  <1> DEFINE u == ReplaceForm(s, v)
  <1>1. /\ DOMAIN u = Fields /\ u.form = Over(v, EmptyForm) /\ u.widgets = <<>>
        /\ \A k \in Fields \ {"form", "widgets"} : u[k] = s[k]
    BY DEF Shape, ReplaceForm, Fields
  <1>2. EmptyForm \in Form
    BY DEF EmptyForm, Form, PathBox
  <1>3. u.form \in Form
    BY <1>1, <1>2, FormOf
  <1>4. Now(u) = u.form
    BY <1>1, <1>3, FormIs DEF Now, Over
  <1>5. Shape(u)
    BY <1>1, <1>3, <1>4 DEF Shape, Fields
  <1> QED BY <1>1, <1>4, <1>5

\* A tab whose callback has run, at the start of its script run.
Begun(s) == [s EXCEPT !.pc = "begin", !.held = <<>>]

LEMMA BegunIs ==
  ASSUME NEW s, Shape(s), NEW fl, NEW st, NEW ck, Honest(s, Now(s), fl, st, ck)
  PROVE  TabOK(Begun(s), fl, st, ck)
  <1> DEFINE u == Begun(s)
  <1>1. /\ DOMAIN u = Fields /\ u.pc = "begin"
        /\ u.form = s.form /\ u.widgets = s.widgets /\ u.project = s.project /\ u.page = s.page
        /\ u.edited = s.edited /\ u.overtaken = s.overtaken /\ u.intent = s.intent
    BY DEF Shape, Begun, Fields
  <1> HIDE DEF u
  <1>2. Now(u) = Now(s)
    BY <1>1 DEF Now
  <1>3. Shape(u)
    BY <1>1, <1>2 DEF Shape
  <1>4. Honest(u, Now(u), fl, st, ck)
    BY <1>1, <1>2 DEF Honest
  <1>5. Settled(u) /\ Holding(u, Now(u), fl, st, ck)
    BY <1>1 DEF Settled, Holding
  <1>6. TabOK(u, fl, st, ck)
    BY <1>3, <1>4, <1>5 DEF TabOK
  <1> QED BY <1>6 DEF u

\* A script run that reaches its end leaves the form as it is, and copies of all of it or none.
LEMMA FinishIs ==
  ASSUME NEW s, Shape(s), Now(s) = s.form, NEW fl, NEW st, NEW ck, Honest(s, s.form, fl, st, ck)
  PROVE  TabOK(Finish(s), fl, st, ck)
  <1> DEFINE w == IF s.page = "setup" THEN Only(s.form, Keys) ELSE <<>>
             u == Finish(s)
  <1>1. /\ DOMAIN s = Fields /\ s.form \in Form /\ Keys \subseteq FormKeys /\ DOMAIN s.form = FormKeys
        /\ DOMAIN s.widgets \subseteq Keys
    BY FormIs DEF Shape, FormKeys
  <1>2. \A k \in DOMAIN s.widgets : s.widgets[k] = s.form[k]
    <2>1. \A k \in DOMAIN s.widgets : Now(s)[k] = s.widgets[k]
      BY CopiesAre
    <2> QED BY <2>1
  <1>3. Over(s.widgets, Only(s.form, Keys)) = Only(s.form, Keys)
    BY <1>1, <1>2 DEF Over, Only
  <1>4. Over(Only(s.form, Keys), s.form) = s.form
    <2>1. s.form = [k \in FormKeys |-> s.form[k]]
      BY <1>1, FormIs
    <2>2. Over(Only(s.form, Keys), s.form) = [k \in FormKeys |-> s.form[k]]
      BY <1>1 DEF Over, Only
    <2> QED BY <2>1, <2>2
  <1>5. PICK r : r = Sync(s)
    OBVIOUS
  <1>6. /\ DOMAIN r = Fields /\ r.form = s.form /\ r.widgets = s.widgets /\ r.page = s.page
        /\ r.edited = s.edited /\ r.overtaken = s.overtaken /\ r.intent = s.intent
        /\ r.project \in PathBox \cup {Uploads}
    BY <1>1, <1>5, FormIs DEF Sync, Shape, Fields, Form, PathBox
  <1>7. PICK q : q = Render(r)
    OBVIOUS
  <1>8. /\ DOMAIN q = Fields /\ q.form = s.form /\ q.widgets = w /\ q.page = s.page
        /\ q.edited = s.edited /\ q.overtaken = s.overtaken /\ q.intent = s.intent
        /\ q.project = r.project
    <2>1. CASE s.page = "setup"
      <3>1. q = Capture(Seed(r))
        BY <2>1, <1>6, <1>7 DEF Render, RenderSetup
      <3>2. PICK p : p = Seed(r)
        OBVIOUS
      <3>3. /\ DOMAIN p = Fields /\ p.form = s.form /\ p.widgets = Only(s.form, Keys) /\ p.page = s.page
            /\ p.edited = s.edited /\ p.overtaken = s.overtaken /\ p.intent = s.intent
            /\ p.project = r.project
        BY <3>2, <1>3, <1>6 DEF Seed, Fields
      <3>4. /\ DOMAIN q = Fields /\ q.form = Over(p.widgets, p.form) /\ q.widgets = p.widgets /\ q.page = p.page
            /\ q.edited = p.edited /\ q.overtaken = p.overtaken /\ q.intent = p.intent
            /\ q.project = p.project
        BY <3>1, <3>2, <3>3 DEF Capture, Fields
      <3> QED BY <3>3, <3>4, <1>4, <2>1
    <2>2. CASE s.page # "setup"
      BY <2>2, <1>6, <1>7 DEF Render, Fields
    <2> QED BY <2>1, <2>2
  <1>9. /\ DOMAIN u = Fields /\ u.form = s.form /\ u.widgets = w /\ u.page = s.page
        /\ u.edited = s.edited /\ u.overtaken = s.overtaken /\ u.intent = s.intent
        /\ u.project \in PathBox \cup {Uploads} /\ u.pc = "idle"
    BY <1>5, <1>6, <1>7, <1>8 DEF Finish, Fields
  <1>10. DOMAIN w = IF s.page = "setup" THEN Keys ELSE {}
    BY DEF Only
  <1> HIDE DEF u
  <1>11. Now(u) = s.form
    <2>1. CASE s.page = "setup"
      BY <2>1, <1>9, <1>4 DEF Now
    <2>2. CASE s.page # "setup"
      <3>1. Now(u) = [k \in FormKeys |-> s.form[k]]
        BY <2>2, <1>1, <1>9 DEF Now, Over
      <3> QED BY <3>1, <1>1, FormIs
    <2> QED BY <2>1, <2>2
  <1>12. Shape(u)
    BY <1>1, <1>9, <1>10, <1>11 DEF Shape
  <1>13. Settled(u) /\ Holding(u, Now(u), fl, st, ck)
    BY <1>9, <1>10, <1>11 DEF Settled, Holding
  <1>14. Honest(u, Now(u), fl, st, ck)
    BY <1>9, <1>11 DEF Honest
  <1>15. TabOK(u, fl, st, ck)
    BY <1>12, <1>13, <1>14 DEF TabOK
  <1> QED BY <1>15 DEF u

\* What a tab and a job are sure of survives a write of a config file: no timestamp that
\* anybody knows is the new one.
LEMMA WriteKeepsTab ==
  ASSUME NEW s, NEW fl, NEW st, NEW ck, NEW p \in Names, NEW cfg \in Config,
         FilesOK(fl, st, ck), TabOK(s, fl, st, ck)
  PROVE  TabOK(s, [fl EXCEPT ![p] = cfg], [st EXCEPT ![p] = ck + 1], ck + 1)
  <1> DEFINE fm == [fl EXCEPT ![p] = cfg]
             sm == [st EXCEPT ![p] = ck + 1]
             f == Now(s)
  <1>1. /\ Shape(s) /\ Settled(s) /\ Honest(s, f, fl, st, ck) /\ Holding(s, f, fl, st, ck)
        /\ f.stamp \in Nat /\ ck \in Nat /\ f.path \in PathBox
    BY FormIs DEF TabOK, FilesOK, Shape, Form
  <1>2. /\ DOMAIN fm = Names /\ DOMAIN sm = Names
        /\ \A n \in Names : n # p => fm[n] = fl[n] /\ sm[n] = st[n]
        /\ fm[p] = cfg /\ sm[p] = ck + 1 /\ cfg # Missing
        /\ \A n \in Names : fl[n] # Missing => fm[n] # Missing
    BY DEF FilesOK, Config, Missing
  <1> HIDE DEF f, fm, sm
  <1>3. Honest(s, f, fm, sm, ck + 1)
    BY <1>1, <1>2 DEF Honest, Mtime
  <1>4. Holding(s, f, fm, sm, ck + 1)
    <2>1. CASE s.pc = "reload"
      BY <2>1, <1>1, <1>2 DEF Holding
    <2>2. CASE s.pc = "opening"
      BY <2>2, <1>1, <1>2 DEF Holding
    <2>3. CASE s.pc = "saved"
      BY <2>3, <1>1, <1>2 DEF Holding
    <2>4. CASE s.pc = "reviewing"
      BY <2>4, <1>1, <1>2 DEF Holding
    <2>5. CASE s.pc \in {"idle", "begin"}
      BY <2>5 DEF Holding
    <2> QED BY <1>1, <2>1, <2>2, <2>3, <2>4, <2>5 DEF Shape
  <1>5. TabOK(s, fm, sm, ck + 1)
    BY <1>1, <1>3, <1>4 DEF TabOK, f
  <1> QED BY <1>5 DEF fm, sm

LEMMA WriteKeepsJob ==
  ASSUME NEW d, NEW j, NEW fl, NEW st, NEW ck, NEW p \in Names, NEW cfg \in Config,
         FilesOK(fl, st, ck), JobOK(d, j, fl, st, ck)
  PROVE  JobOK(d, j, [fl EXCEPT ![p] = cfg], [st EXCEPT ![p] = ck + 1], ck + 1)
  <1> DEFINE fm == [fl EXCEPT ![p] = cfg]
             sm == [st EXCEPT ![p] = ck + 1]
  <1>1. /\ DOMAIN fm = Names /\ DOMAIN sm = Names /\ ck \in Nat
        /\ \A n \in Names : n # p => fm[n] = fl[n] /\ sm[n] = st[n]
        /\ fm[p] = cfg /\ sm[p] = ck + 1 /\ cfg # Missing
        /\ \A n \in Names : fl[n] # Missing => fm[n] # Missing
    BY DEF FilesOK, Config, Missing
  <1> HIDE DEF fm, sm
  <1>2. JobOK(d, j, fm, sm, ck + 1)
    BY <1>1 DEF JobOK
  <1> QED BY <1>2 DEF fm, sm

LEMMA WriteKeepsFiles ==
  ASSUME NEW fl, NEW st, NEW ck, NEW p \in Names, NEW cfg \in Config, FilesOK(fl, st, ck)
  PROVE  FilesOK([fl EXCEPT ![p] = cfg], [st EXCEPT ![p] = ck + 1], ck + 1)
  BY DEF FilesOK, Config, Missing

----
(* The steps of a tab that leave the files alone *)

\* A tab that differs in its flags and its place only.
LEMMA FlagsIs ==
  ASSUME NEW s, Shape(s), NEW u, DOMAIN u = Fields, u.form = s.form, u.widgets = s.widgets,
         u.project \in PathBox \cup {Uploads}, u.page \in {"setup", "run"},
         u.pc \in {"idle", "begin", "reload", "opening", "saved", "reviewing"},
         u.edited \in BOOLEAN, u.overtaken \in BOOLEAN, u.intent \in BOOLEAN
  PROVE  Shape(u) /\ Now(u) = Now(s)
  <1>1. Now(u) = Now(s)
    BY DEF Now
  <1> QED BY <1>1 DEF Shape

\* A box of the setup page gets another value.
LEMMA WidgetsIs ==
  ASSUME NEW s, Shape(s), NEW u, DOMAIN u = Fields, u.form = s.form, DOMAIN u.widgets = Keys, Fits(u.widgets),
         u.project \in PathBox \cup {Uploads}, u.page \in {"setup", "run"},
         u.pc \in {"idle", "begin", "reload", "opening", "saved", "reviewing"},
         u.edited \in BOOLEAN, u.overtaken \in BOOLEAN, u.intent \in BOOLEAN
  PROVE  /\ Shape(u) /\ Now(u).stamp = s.form.stamp
         /\ \A k \in Keys : Now(u)[k] = u.widgets[k]
  <1>1. /\ Now(u) \in Form
        /\ \A k \in FormKeys : Now(u)[k] = IF k \in Keys THEN u.widgets[k] ELSE s.form[k]
    BY FormOf DEF Now, Shape
  <1>2. Shape(u)
    BY <1>1 DEF Shape
  <1> QED BY <1>1, <1>2 DEF FormKeys, Keys

LEMMA TabIs ==
  ASSUME Inv, NEW t \in Tabs
  PROVE  /\ Shape(tab[t]) /\ Settled(tab[t])
         /\ Honest(tab[t], Now(tab[t]), file, stamp, clock)
         /\ Holding(tab[t], Now(tab[t]), file, stamp, clock)
         /\ DOMAIN tab = Tabs /\ acts \in Nat
  BY DEF Inv, TabOK, RestOK

LEMMA AtSetup ==
  ASSUME Inv, NEW t \in Tabs, At(t, "setup")
  PROVE  /\ Now(tab[t]) = tab[t].form /\ DOMAIN tab[t].widgets = Keys
         /\ \A k \in Keys : tab[t].widgets[k] = tab[t].form[k]
         /\ acts' \in Nat
  <1>1. Now(tab[t]) = tab[t].form /\ DOMAIN tab[t].widgets = Keys /\ acts' \in Nat
    BY TabIs DEF At, Settled
  <1>2. \A k \in DOMAIN tab[t].widgets : Now(tab[t])[k] = tab[t].widgets[k]
    BY CopiesAre
  <1> QED BY <1>1, <1>2

\* Only the tab has moved.
LEMMA Moves ==
  ASSUME Inv, NEW t \in Tabs, NEW s, tab' = [tab EXCEPT ![t] = s],
         TabOK(s, file, stamp, clock), UNCHANGED Disk, acts' \in Nat
  PROVE  Inv'
  BY DEF Inv, RestOK, Disk

LEMMA Runs ==
  ASSUME Inv, NEW t \in Tabs, NEW s, RunScript(t, s), Shape(s),
         Honest(s, Now(s), file, stamp, clock), UNCHANGED Disk, acts' \in Nat
  PROVE  Inv'
  <1>1. TabOK(Begun(s), file, stamp, clock)
    BY BegunIs
  <1>2. tab' = [tab EXCEPT ![t] = Begun(s)]
    BY DEF RunScript, Begun
  <1> QED BY <1>1, <1>2, Moves

LEMMA StampIs ==
  ASSUME Inv, NEW p \in PathBox
  PROVE  /\ StampOf(p) = Mtime(stamp, p) /\ StampOf(p) \in Nat /\ StampOf(p) <= clock
         /\ StampOf(p) = 0 <=> TryLoad(p) = Missing
         /\ TryLoad(p) \in Config \cup {Missing}
         /\ TryLoad(p) # Missing => p \in Names /\ TryLoad(p) = file[p] /\ TryLoad(p) \in Config
         /\ clock \in Nat /\ Nowhere \notin Names
  BY SessionAssumption DEF Inv, FilesOK, StampOf, Mtime, TryLoad, PathBox, Missing, Config

LEMMA BeginStep ==
  ASSUME Inv, NEW t \in Tabs, Begin(t)
  PROVE  Inv'
  <1> DEFINE o == tab[t]
  <1>1. PICK s : s = Capture(o)
    OBVIOUS
  <1>2. /\ Shape(s) /\ s.form = Now(o) /\ Now(s) = s.form /\ s.pc = "begin"
        /\ s.edited = o.edited /\ s.overtaken = o.overtaken /\ s.intent = o.intent
    BY <1>1, TabIs, CaptureIs DEF Begin, Fields
  <1>3. Honest(s, s.form, file, stamp, clock)
    BY <1>2, TabIs DEF Honest
  <1>4. PICK m : m = StampOf(s.form.path)
    OBVIOUS
  <1>5. /\ s.form.path \in PathBox /\ s.form \in Form /\ s.form.stamp \in Nat
    BY <1>2 DEF Shape, Form
  <1>6. UNCHANGED Disk /\ acts' \in Nat
    BY TabIs DEF Begin, Disk
  <1>7. CASE m = 0 \/ s.form.stamp = m
    <2>1. tab' = [tab EXCEPT ![t] = Finish(s)]
      BY <1>1, <1>4, <1>7 DEF Begin
    <2>2. TabOK(Finish(s), file, stamp, clock)
      BY <1>2, <1>3, FinishIs
    <2> QED BY <2>1, <2>2, <1>6, Moves
  <1>8. CASE m # 0 /\ s.form.stamp = 0
    <2>1. PICK u : u = [s EXCEPT !.form.stamp = m]
      OBVIOUS
    <2>2. tab' = [tab EXCEPT ![t] = Finish(u)]
      BY <1>1, <1>4, <1>8, <2>1 DEF Begin
    <2>3. /\ DOMAIN u = Fields /\ u.form = [s.form EXCEPT !.stamp = m]
          /\ \A k \in Fields : k # "form" => u[k] = s[k]
      BY <1>2, <2>1 DEF Shape, Fields
    <2>4. m \in Nat /\ m <= clock /\ u.form \in Form /\ s.form.path \in Names
      BY <1>4, <1>5, <1>8, <2>3, StampIs DEF Form, StampOf
    <2>5. /\ u.widgets = s.widgets /\ u.project = s.project /\ u.page = s.page /\ u.pc = s.pc
          /\ u.edited = s.edited /\ u.overtaken = s.overtaken /\ u.intent = s.intent
      BY <2>3 DEF Fields
    <2>6. /\ \A k \in FormKeys : k # "stamp" => u.form[k] = s.form[k]
          /\ u.form.stamp = m /\ DOMAIN s.form = FormKeys /\ DOMAIN u.form = FormKeys
      BY <1>5, <2>3, <2>4, FormIs DEF FormKeys
    <2>7. Now(u) = u.form
      <3>1. \A k \in DOMAIN s.widgets : k \in Keys /\ s.widgets[k] = s.form[k]
        <4>1. \A k \in DOMAIN s.widgets : Now(s)[k] = s.widgets[k]
          BY CopiesAre
        <4> QED BY <4>1, <1>2 DEF Shape
      <3>2. Now(u) = [k \in FormKeys |-> u.form[k]]
        BY <2>5, <2>6, <3>1 DEF Now, Over, FormKeys, Keys
      <3> QED BY <3>2, <2>4, FormIs
    <2>8. Shape(u)
      BY <1>2, <2>3, <2>4, <2>5, <2>7 DEF Shape
    <2>9. s.edited
      BY <1>3, <1>5, <1>8, <2>4, StampIs, <1>2 DEF Honest, Shape
    <2>10. Honest(u, u.form, file, stamp, clock)
      BY <1>3, <2>4, <2>5, <2>6, <2>9 DEF Honest, FormKeys, Keys
    <2>11. TabOK(Finish(u), file, stamp, clock)
      BY <2>7, <2>8, <2>10, FinishIs
    <2> QED BY <2>2, <2>11, <1>6, Moves
  <1>9. CASE m # 0 /\ s.form.stamp # m /\ s.form.stamp # 0
    <2>1. PICK u : u = [s EXCEPT !.pc = "reload", !.held = [stamp |-> m]]
      OBVIOUS
    <2>2. tab' = [tab EXCEPT ![t] = u]
      BY <1>1, <1>4, <1>9, <2>1 DEF Begin
    <2>3. /\ DOMAIN u = Fields /\ u.pc = "reload" /\ u.held.stamp = m
          /\ \A k \in Fields : k \notin {"pc", "held"} => u[k] = s[k]
      BY <1>2, <2>1 DEF Shape, Fields
    <2>4. /\ u.form = s.form /\ u.widgets = s.widgets /\ u.project = s.project /\ u.page = s.page
          /\ u.edited = s.edited /\ u.overtaken = s.overtaken /\ u.intent = s.intent
      BY <2>3 DEF Fields
    <2>5. Shape(u) /\ Now(u) = s.form
      <3>1. /\ u.project \in PathBox \cup {Uploads} /\ u.page \in {"setup", "run"}
            /\ u.edited \in BOOLEAN /\ u.overtaken \in BOOLEAN /\ u.intent \in BOOLEAN
        BY <1>2, <2>4 DEF Shape
      <3> QED BY <1>2, <2>3, <2>4, <3>1, FlagsIs
    <2>6. Honest(u, Now(u), file, stamp, clock)
      BY <1>3, <2>4, <2>5 DEF Honest
    <2>7. s.form.path \in Names /\ file[s.form.path] # Missing /\ m \in 1..clock
      BY <1>4, <1>5, <1>9, StampIs DEF StampOf
    <2>8. Settled(u) /\ Holding(u, Now(u), file, stamp, clock)
      BY <2>3, <2>4, <2>5, <2>7 DEF Settled, Holding
    <2>9. TabOK(u, file, stamp, clock)
      BY <2>5, <2>6, <2>8 DEF TabOK
    <2> QED BY <2>2, <2>9, <1>6, Moves
  <1> QED BY <1>7, <1>8, <1>9

LEMMA ConfigForm ==
  ASSUME NEW cfg \in Config, NEW out \in PathBox, NEW path \in PathBox
  PROVE  LET v == FormFromConfig(cfg, out, path)
         IN  /\ DOMAIN v = Keys /\ Fits(v)
             /\ v.approved = cfg.approved /\ v.yaml = cfg
             /\ v.path = IF path = Nowhere THEN cfg.dir ELSE path
  BY DEF FormFromConfig, Config, PathBox, Keys, FormKeys, Fits

\* With a timestamp.
LEMMA StampedForm ==
  ASSUME NEW v, DOMAIN v = Keys, Fits(v), NEW m \in Nat
  PROVE  LET w == Over([stamp |-> m], v)
         IN  /\ DOMAIN w = FormKeys /\ Fits(w) /\ w.stamp = m
             /\ \A k \in Keys : w[k] = v[k]
  <1>1. PICK w : w = Over([stamp |-> m], v)
    OBVIOUS
  <1>2. DOMAIN w = FormKeys /\ w.stamp = m /\ \A k \in Keys : w[k] = v[k]
    BY <1>1 DEF Over, FormKeys, Keys
  <1>3. {"dir", "path", "approved", "target", "yaml"} = Keys /\ FormKeys = Keys \cup {"stamp"}
    BY DEF FormKeys, Keys
  <1>4. Fits(w)
    BY <1>2, <1>3 DEF Fits
  <1> QED BY <1>1, <1>2, <1>4

LEMMA ReloadStep ==
  ASSUME Inv, NEW t \in Tabs, Reload(t)
  PROVE  Inv'
  <1>1. PICK s : s = tab[t]
    OBVIOUS
  <1>2. /\ Shape(s) /\ Now(s) = s.form /\ s.form \in Form /\ s.pc = "reload"
        /\ s.form.path \in Names /\ file[s.form.path] # Missing /\ s.held.stamp \in 1..clock
    BY <1>1, TabIs DEF Reload, Settled, Holding, Shape
  <1>3. PICK cfg : cfg = TryLoad(s.form.path)
    OBVIOUS
  <1>4. s.form.path \in PathBox /\ s.form.dir \in PathBox /\ s.held.stamp \in Nat
    BY <1>2 DEF Form
  <1>5. cfg = file[s.form.path] /\ cfg \in Config
    BY <1>2, <1>3, <1>4, StampIs DEF TryLoad
  <1>6. PICK b : b = FormFromConfig(cfg, s.form.dir, s.form.path)
    OBVIOUS
  <1>7. /\ DOMAIN b = Keys /\ Fits(b) /\ b.approved = cfg.approved /\ b.yaml = cfg /\ b.path = s.form.path
    BY <1>2, <1>4, <1>5, <1>6, ConfigForm, SessionAssumption
  <1>8. PICK v : v = Over([stamp |-> s.held.stamp], b)
    OBVIOUS
  <1>9. /\ DOMAIN v = FormKeys /\ Fits(v) /\ v.stamp = s.held.stamp /\ \A k \in Keys : v[k] = b[k]
    BY <1>4, <1>7, <1>8, StampedForm
  <1>10. PICK u : u = SetForm(s, v)
    OBVIOUS
  <1>11. /\ Shape(u) /\ Now(u) = u.form /\ \A k \in FormKeys : u.form[k] = v[k]
         /\ \A k \in Fields \ {"form", "widgets"} : u[k] = s[k]
    BY <1>2, <1>9, <1>10, SetFormIs
  <1>12. PICK q : q = [u EXCEPT !.edited = FALSE, !.overtaken = FALSE, !.intent = cfg.approved]
    OBVIOUS
  <1>13. tab' = [tab EXCEPT ![t] = Finish(q)]
    BY <1>1, <1>3, <1>6, <1>8, <1>10, <1>12 DEF Reload
  <1>14. /\ DOMAIN q = Fields /\ q.form = u.form /\ q.widgets = u.widgets /\ q.project = u.project /\ q.page = u.page
         /\ q.pc = u.pc /\ q.edited = FALSE /\ q.overtaken = FALSE /\ q.intent = cfg.approved
    BY <1>11, <1>12 DEF Shape, Fields
  <1>15. cfg.approved \in BOOLEAN
    BY <1>5 DEF Config
  <1>16. Shape(q) /\ Now(q) = q.form
    <2>1. /\ u.project \in PathBox \cup {Uploads} /\ u.page \in {"setup", "run"}
          /\ u.pc \in {"idle", "begin", "reload", "opening", "saved", "reviewing"}
      BY <1>11 DEF Shape
    <2> QED BY <1>11, <1>14, <1>15, <2>1, FlagsIs
  <1>17. /\ q.form.approved = cfg.approved /\ q.form.stamp = s.held.stamp
         /\ q.form.path = s.form.path /\ q.form.yaml = cfg
    BY <1>7, <1>9, <1>11, <1>14 DEF FormKeys, Keys
  <1>18. Honest(q, q.form, file, stamp, clock)
    BY <1>2, <1>5, <1>14, <1>17 DEF Honest
  <1>19. TabOK(Finish(q), file, stamp, clock)
    BY <1>16, <1>18, FinishIs
  <1>20. UNCHANGED Disk /\ acts' \in Nat
    BY TabIs DEF Reload, Disk
  <1> QED BY <1>13, <1>19, <1>20, Moves

LEMMA VisitStep ==
  ASSUME Inv, NEW t \in Tabs, Visit(t)
  PROVE  Inv'
  <1>1. PICK page \in {"setup", "run"} :
          At(t, page) /\ RunScript(t, [tab[t] EXCEPT !.page = IF page = "setup" THEN "run" ELSE "setup"])
    BY DEF Visit
  <1>2. PICK u : u = [tab[t] EXCEPT !.page = IF page = "setup" THEN "run" ELSE "setup"]
    OBVIOUS
  <1>3. /\ DOMAIN u = Fields /\ u.page \in {"setup", "run"} /\ \A k \in Fields : k # "page" => u[k] = tab[t][k]
    BY <1>2, TabIs DEF Shape, Fields
  <1>4. /\ u.form = tab[t].form /\ u.widgets = tab[t].widgets /\ u.project = tab[t].project /\ u.pc = tab[t].pc
        /\ u.edited = tab[t].edited /\ u.overtaken = tab[t].overtaken /\ u.intent = tab[t].intent
    BY <1>3 DEF Fields
  <1>5. Shape(u) /\ Now(u) = Now(tab[t])
    <2>1. /\ u.project \in PathBox \cup {Uploads}
          /\ u.pc \in {"idle", "begin", "reload", "opening", "saved", "reviewing"}
          /\ u.edited \in BOOLEAN /\ u.overtaken \in BOOLEAN /\ u.intent \in BOOLEAN
      BY <1>4, TabIs DEF Shape
    <2> QED BY <1>3, <1>4, <2>1, TabIs, FlagsIs
  <1>6. Honest(u, Now(u), file, stamp, clock)
    BY <1>4, <1>5, TabIs DEF Honest
  <1>7. UNCHANGED Disk /\ acts' \in Nat
    BY <1>1, TabIs DEF Visit, At
  <1> QED BY <1>1, <1>2, <1>5, <1>6, <1>7, Runs

LEMMA FillInStep ==
  ASSUME Inv, NEW t \in Tabs, FillIn(t)
  PROVE  Inv'
  <1>1. PICK s : s = tab[t]
    OBVIOUS
  <1>2. At(t, "setup") /\ UNCHANGED Disk
    BY ZenonT(60) DEF FillIn
  <1>3. /\ Shape(s) /\ Now(s) = s.form /\ DOMAIN s.widgets = Keys /\ acts' \in Nat
        /\ \A k \in Keys : s.widgets[k] = s.form[k]
        /\ Honest(s, s.form, file, stamp, clock)
    BY <1>1, <1>2, TabIs, AtSetup
  <1>4. /\ s.project \in PathBox \cup {Uploads} /\ s.page \in {"setup", "run"}
        /\ s.pc \in {"idle", "begin", "reload", "opening", "saved", "reviewing"}
        /\ s.edited \in BOOLEAN /\ s.overtaken \in BOOLEAN /\ s.intent \in BOOLEAN
        /\ DOMAIN s = Fields /\ s.form \in Form
    BY <1>3 DEF Shape
  <1>5. Fits(s.widgets)
    <2>1. Fits(s.form) /\ DOMAIN s.form = FormKeys
      BY <1>4, FormIs
    <2>2. {"dir", "path", "approved", "target", "yaml"} = Keys /\ FormKeys = Keys \cup {"stamp"}
      BY DEF FormKeys, Keys
    <2> QED BY <1>3, <2>1, <2>2 DEF Fits
  <1>6. /\ s.form.path = s.widgets.path /\ s.form.approved = s.widgets.approved /\ s.form.yaml = s.widgets.yaml
    BY <1>3 DEF Keys
  <1>7. CASE RunScript(t, [tab[t] EXCEPT !.widgets.approved = ~@, !.intent = ~tab[t].widgets.approved])
    <2>1. PICK u : u = [s EXCEPT !.widgets.approved = ~@, !.intent = ~s.widgets.approved]
      OBVIOUS
    <2>2. /\ DOMAIN u = Fields /\ u.form = s.form /\ u.project = s.project /\ u.page = s.page /\ u.pc = s.pc
          /\ u.edited = s.edited /\ u.overtaken = s.overtaken
          /\ u.widgets = [s.widgets EXCEPT !.approved = ~@]
      BY <1>4, <2>1 DEF Fields
    <2>9. u.intent = ~s.widgets.approved
      BY <1>4, <2>1 DEF Fields
    <2>3. /\ DOMAIN u.widgets = Keys /\ u.widgets.approved = ~s.widgets.approved
          /\ \A k \in Keys : k # "approved" => u.widgets[k] = s.widgets[k]
      BY <1>3, <2>2 DEF Keys
    <2>4. Fits(u.widgets)
      BY <1>3, <1>5, <2>3 DEF Fits, Keys
    <2>5. u.intent \in BOOLEAN
      BY <2>9
    <2>6. Shape(u) /\ Now(u).stamp = s.form.stamp /\ \A k \in Keys : Now(u)[k] = u.widgets[k]
      BY <1>3, <1>4, <2>2, <2>3, <2>4, <2>5, WidgetsIs
    <2>7. Now(u).approved = u.intent /\ Now(u).path = s.form.path /\ Now(u).yaml = s.form.yaml
      BY <1>6, <2>3, <2>6, <2>9 DEF Keys
    <2>8. Honest(u, Now(u), file, stamp, clock)
      BY <1>3, <2>2, <2>6, <2>7 DEF Honest
    <2> QED BY <1>1, <1>2, <1>3, <1>7, <2>1, <2>6, <2>8, Runs
  <1>8. ASSUME NEW d \in PathBox, RunScript(t, [tab[t] EXCEPT !.widgets.dir = d])
        PROVE  Inv'
    <2>1. PICK u : u = [s EXCEPT !.widgets.dir = d]
      OBVIOUS
    <2>2. /\ DOMAIN u = Fields /\ u.form = s.form /\ u.project = s.project /\ u.page = s.page /\ u.pc = s.pc
          /\ u.edited = s.edited /\ u.overtaken = s.overtaken /\ u.intent = s.intent
          /\ u.widgets = [s.widgets EXCEPT !.dir = d]
      BY <1>4, <2>1 DEF Fields
    <2>3. /\ DOMAIN u.widgets = Keys /\ u.widgets.dir = d
          /\ \A k \in Keys : k # "dir" => u.widgets[k] = s.widgets[k]
      BY <1>3, <2>2 DEF Keys
    <2>4. Fits(u.widgets)
      BY <1>3, <1>5, <2>3 DEF Fits, Keys
    <2>6. Shape(u) /\ Now(u).stamp = s.form.stamp /\ \A k \in Keys : Now(u)[k] = u.widgets[k]
      BY <1>3, <1>4, <2>2, <2>3, <2>4, WidgetsIs
    <2>7. Now(u).approved = s.form.approved /\ Now(u).path = s.form.path /\ Now(u).yaml = s.form.yaml
      BY <1>6, <2>2, <2>3, <2>6 DEF Keys
    <2>8. Honest(u, Now(u), file, stamp, clock)
      BY <1>3, <2>2, <2>6, <2>7 DEF Honest
    <2> QED BY <1>1, <1>2, <1>3, <1>8, <2>1, <2>6, <2>8, Runs
  <1>9. ASSUME NEW p \in PathBox, RunScript(t, [tab[t] EXCEPT !.widgets.path = p, !.edited = TRUE])
        PROVE  Inv'
    <2>1. PICK u : u = [s EXCEPT !.widgets.path = p, !.edited = TRUE]
      OBVIOUS
    <2>2. /\ DOMAIN u = Fields /\ u.form = s.form /\ u.project = s.project /\ u.page = s.page /\ u.pc = s.pc
          /\ u.overtaken = s.overtaken /\ u.intent = s.intent
          /\ u.widgets = [s.widgets EXCEPT !.path = p]
      BY <1>4, <2>1 DEF Fields
    <2>9. u.edited
      BY <1>4, <2>1 DEF Fields
    <2>5. u.edited \in BOOLEAN
      BY <1>4, <2>1 DEF Fields
    <2>3. /\ DOMAIN u.widgets = Keys /\ u.widgets.path = p
          /\ \A k \in Keys : k # "path" => u.widgets[k] = s.widgets[k]
      BY <1>3, <2>2 DEF Keys
    <2>4. Fits(u.widgets)
      BY <1>3, <1>5, <2>3 DEF Fits, Keys
    <2>6. Shape(u) /\ Now(u).stamp = s.form.stamp /\ \A k \in Keys : Now(u)[k] = u.widgets[k]
      BY <1>3, <1>4, <2>2, <2>3, <2>4, <2>5, WidgetsIs
    <2>7. Now(u).approved = s.form.approved
      BY <1>6, <2>2, <2>3, <2>6 DEF Keys
    <2>8. Honest(u, Now(u), file, stamp, clock)
      BY <1>3, <2>2, <2>6, <2>7, <2>9 DEF Honest
    <2> QED BY <1>1, <1>2, <1>3, <1>9, <2>1, <2>6, <2>8, Runs
  <1> QED BY <1>7, <1>8, <1>9, ZenonT(60) DEF FillIn, PathBox

LEMMA EditYamlStep ==
  ASSUME Inv, NEW t \in Tabs, EditYaml(t)
  PROVE  Inv'
  <1>1. PICK s : s = tab[t]
    OBVIOUS
  <1>2. At(t, "setup") /\ UNCHANGED Disk
    BY DEF EditYaml
  <1>3. /\ Shape(s) /\ Now(s) = s.form /\ DOMAIN s.widgets = Keys /\ acts' \in Nat
        /\ \A k \in Keys : s.widgets[k] = s.form[k]
        /\ Honest(s, s.form, file, stamp, clock)
    BY <1>1, <1>2, TabIs, AtSetup
  <1>4. /\ s.project \in PathBox \cup {Uploads} /\ s.page \in {"setup", "run"}
        /\ s.pc \in {"idle", "begin", "reload", "opening", "saved", "reviewing"}
        /\ s.edited \in BOOLEAN /\ s.overtaken \in BOOLEAN /\ s.intent \in BOOLEAN
        /\ DOMAIN s = Fields /\ s.form \in Form
    BY <1>3 DEF Shape
  <1>5. Fits(s.widgets)
    <2>1. Fits(s.form) /\ DOMAIN s.form = FormKeys
      BY <1>4, FormIs
    <2>2. {"dir", "path", "approved", "target", "yaml"} = Keys /\ FormKeys = Keys \cup {"stamp"}
      BY DEF FormKeys, Keys
    <2> QED BY <1>3, <2>1, <2>2 DEF Fits
  <1>6. s.form.approved = s.widgets.approved /\ s.widgets.yaml \in Config \cup {Blank, Broken}
    BY <1>3, <1>5 DEF Keys, Fits
  <1>7. PICK y : y = s.widgets.yaml
    OBVIOUS
  <1>8. PICK text \in IF y.kind = "config" THEN {[y EXCEPT !.approved = ~@], Broken} \cup {[y EXCEPT !.dir = d] : d \in Names \ {y.dir}}
                 ELSE {Template(n) : n \in Names} :
          RunScript(t, [s EXCEPT !.widgets.yaml = text, !.edited = TRUE])
    BY <1>1, <1>7, ZenonT(60) DEF EditYaml
  <1>9. text \in Config \cup {Blank, Broken}
    <2>1. CASE y.kind = "config"
      <3>1. y \in Config
        BY <1>6, <1>7, <2>1 DEF Blank, Broken
      <3>2. [y EXCEPT !.approved = ~@] \in Config
        BY <3>1 DEF Config
      <3>3. \A d \in Names : [y EXCEPT !.dir = d] \in Config
        BY <3>1 DEF Config
      <3> QED BY <1>8, <2>1, <3>2, <3>3
    <2>2. CASE y.kind # "config"
      <3>1. \A n \in Names : Template(n) \in Config
        BY DEF Template, Config
      <3> QED BY <1>8, <2>2, <3>1
    <2> QED BY <2>1, <2>2
  <1>10. PICK u : u = [s EXCEPT !.widgets.yaml = text, !.edited = TRUE]
    OBVIOUS
  <1>11. /\ DOMAIN u = Fields /\ u.form = s.form /\ u.project = s.project /\ u.page = s.page /\ u.pc = s.pc
         /\ u.overtaken = s.overtaken /\ u.intent = s.intent
         /\ u.widgets = [s.widgets EXCEPT !.yaml = text]
    BY <1>4, <1>10 DEF Fields
  <1>17. u.edited
    BY <1>4, <1>10 DEF Fields
  <1>18. u.edited \in BOOLEAN
    BY <1>4, <1>10 DEF Fields
  <1>12. /\ DOMAIN u.widgets = Keys /\ u.widgets.yaml = text
         /\ \A k \in Keys : k # "yaml" => u.widgets[k] = s.widgets[k]
    BY <1>3, <1>11 DEF Keys
  <1>13. Fits(u.widgets)
    BY <1>3, <1>5, <1>9, <1>12 DEF Fits, Keys
  <1>14. Shape(u) /\ Now(u).stamp = s.form.stamp /\ \A k \in Keys : Now(u)[k] = u.widgets[k]
    BY <1>3, <1>4, <1>11, <1>12, <1>13, <1>18, WidgetsIs
  <1>15. Now(u).approved = s.form.approved
    BY <1>6, <1>12, <1>14 DEF Keys
  <1>16. Honest(u, Now(u), file, stamp, clock)
    BY <1>3, <1>11, <1>14, <1>15, <1>17 DEF Honest
  <1> QED BY <1>1, <1>2, <1>3, <1>8, <1>10, <1>14, <1>16, Runs

\* The person's part in what the form says: from here on it is not what the file says.
LEMMA EditedIs ==
  ASSUME NEW s, Shape(s), NEW fl, NEW st, NEW ck, Honest(s, Now(s), fl, st, ck),
         NEW v, Fits(v), DOMAIN v \cap {"approved", "stamp"} = {},
         NEW u, u = [SetForm(s, v) EXCEPT !.edited = TRUE]
  PROVE  Shape(u) /\ Honest(u, Now(u), fl, st, ck)
  <1>1. PICK r : r = SetForm(s, v)
    OBVIOUS
  <1>2. /\ Shape(r)
        /\ \A k \in FormKeys : Now(r)[k] = IF k \in DOMAIN v THEN v[k] ELSE Now(s)[k]
        /\ \A k \in Fields \ {"form", "widgets"} : r[k] = s[k]
    BY <1>1, SetFormIs
  <1>3. /\ DOMAIN u = Fields /\ u.form = r.form /\ u.widgets = r.widgets /\ u.project = r.project /\ u.page = r.page
        /\ u.pc = r.pc /\ u.overtaken = r.overtaken /\ u.intent = r.intent
    BY <1>1, <1>2 DEF Shape, Fields
  <1>7. u.edited
    BY <1>1, <1>2 DEF Shape, Fields
  <1>8. u.edited \in BOOLEAN
    BY <1>1, <1>2 DEF Shape, Fields
  <1>4. Shape(u) /\ Now(u) = Now(r)
    <2>1. /\ r.project \in PathBox \cup {Uploads} /\ r.page \in {"setup", "run"}
          /\ r.pc \in {"idle", "begin", "reload", "opening", "saved", "reviewing"}
          /\ r.overtaken \in BOOLEAN /\ r.intent \in BOOLEAN
      BY <1>2 DEF Shape
    <2> QED BY <1>2, <1>3, <1>8, <2>1, FlagsIs
  <1>5. Now(u).approved = Now(s).approved /\ Now(u).stamp = Now(s).stamp /\ u.intent = s.intent
    BY <1>2, <1>3, <1>4 DEF FormKeys, Keys, Fields
  <1>6. Honest(u, Now(u), fl, st, ck)
    BY <1>3, <1>5, <1>7 DEF Honest
  <1> QED BY <1>4, <1>6

LEMMA ApplyTargetStep ==
  ASSUME Inv, NEW t \in Tabs, ApplyTarget(t)
  PROVE  Inv'
  <1>1. At(t, "setup") /\ UNCHANGED Disk /\ acts' \in Nat
    BY AtSetup DEF ApplyTarget
  <1>2. ASSUME NEW n \in PathBox, NEW b \in BOOLEAN,
               RunScript(t, [SetForm(tab[t], [target |-> b, dir |-> n, path |-> n]) EXCEPT !.edited = TRUE])
        PROVE  Inv'
    <2>1. PICK v : v = [target |-> b, dir |-> n, path |-> n]
      OBVIOUS
    <2>2. Fits(v) /\ DOMAIN v = {"target", "dir", "path"}
      BY <2>1 DEF Fits, FormKeys, Keys
    <2>3. PICK u : u = [SetForm(tab[t], v) EXCEPT !.edited = TRUE]
      OBVIOUS
    <2>4. Shape(u) /\ Honest(u, Now(u), file, stamp, clock)
      BY <2>2, <2>3, TabIs, EditedIs
    <2> QED BY <1>1, <1>2, <2>1, <2>3, <2>4, Runs
  <1> QED BY <1>2 DEF ApplyTarget, PathBox

LEMMA EmptyIs ==
  ASSUME Inv, NEW t \in Tabs, NEW project \in PathBox \cup {Uploads}
  PROVE  LET u == Empty(tab[t], project) IN Shape(u) /\ Honest(u, Now(u), file, stamp, clock)
  <1>1. PICK r : r = ReplaceForm(tab[t], <<>>)
    OBVIOUS
  <1>2. PICK u : u = Empty(tab[t], project)
    OBVIOUS
  <1>3. Fits(<<>>)
    BY DEF Fits
  <1>4. /\ Shape(r) /\ Now(r) = Over(<<>>, EmptyForm)
        /\ \A k \in Fields \ {"form", "widgets"} : r[k] = tab[t][k]
    BY <1>1, <1>3, TabIs, ReplaceFormIs
  <1>5. /\ DOMAIN u = Fields /\ u.form = r.form /\ u.widgets = r.widgets /\ u.project = project
        /\ u.page = r.page /\ u.pc = r.pc
    BY <1>1, <1>2, <1>4 DEF Empty, Shape, Fields
  <1>6. ~u.edited /\ ~u.overtaken /\ ~u.intent
    BY <1>1, <1>2, <1>4 DEF Empty, Shape, Fields
  <1>7. u.edited \in BOOLEAN /\ u.overtaken \in BOOLEAN /\ u.intent \in BOOLEAN /\ u.intent = FALSE
    BY <1>1, <1>2, <1>4 DEF Empty, Shape, Fields
  <1>8. Shape(u) /\ Now(u) = Now(r)
    <2>1. /\ u.project \in PathBox \cup {Uploads} /\ u.page \in {"setup", "run"}
          /\ u.pc \in {"idle", "begin", "reload", "opening", "saved", "reviewing"}
      BY <1>4, <1>5 DEF Shape
    <2>2. u.edited \in BOOLEAN /\ u.overtaken \in BOOLEAN /\ u.intent \in BOOLEAN
      BY <1>7
    <2> QED BY <1>4, <1>5, <2>1, <2>2, FlagsIs
  <1>9. Now(u).approved = FALSE /\ Now(u).stamp = 0 /\ Now(u).path = Nowhere
    BY <1>4, <1>8 DEF Over, EmptyForm
  <1>10. Now(u).approved = u.intent
    BY <1>7, <1>9
  <1>11. clock \in Nat
    BY DEF Inv, FilesOK
  <1>12. Honest(u, Now(u), file, stamp, clock)
    BY <1>9, <1>10, <1>11 DEF Honest
  <1> QED BY <1>2, <1>8, <1>12

LEMMA ClearStep ==
  ASSUME Inv, NEW t \in Tabs, Clear(t)
  PROVE  Inv'
  <1>1. RunScript(t, Empty(tab[t], Nowhere)) /\ UNCHANGED Disk /\ acts' \in Nat
    BY TabIs DEF Clear, At
  <1>2. Nowhere \in PathBox \cup {Uploads}
    BY DEF PathBox
  <1> QED BY <1>1, <1>2, EmptyIs, Runs

LEMMA SetUploadsStep ==
  ASSUME Inv, NEW t \in Tabs, SetUploads(t)
  PROVE  Inv'
  <1>1. RunScript(t, Empty(tab[t], Uploads)) /\ UNCHANGED Disk /\ acts' \in Nat
    BY TabIs DEF SetUploads, At
  <1> QED BY <1>1, EmptyIs, Runs

\* What ProjectConfig finds: a config in a file, or one that only a report holds.
LEMMA ProjectConfigIs ==
  ASSUME Inv, NEW d \in Names
  PROVE  LET found == ProjectConfig(d)
         IN  /\ found.path \in PathBox /\ found.config \in Config \cup {Missing}
             /\ found.path \in Names => found.config # Missing /\ found.config = file[found.path]
  <1>1. /\ job[d].path \in PathBox /\ report[d].path \in PathBox /\ report[d].config \in Config \cup {Missing}
        /\ d \in PathBox
    BY DEF Inv, JobOK, Job, RestOK, Report, PathBox
  <1>2. PICK found : found = ProjectConfig(d)
    OBVIOUS
  <1>3. Nowhere \in PathBox /\ Nowhere \notin Names
    BY SessionAssumption DEF PathBox
  <1>4. CASE TryLoad(job[d].path) # Missing
    BY <1>1, <1>2, <1>4, StampIs DEF ProjectConfig
  <1>5. CASE TryLoad(job[d].path) = Missing /\ TryLoad(report[d].path) # Missing
    BY <1>1, <1>2, <1>5, StampIs DEF ProjectConfig
  <1>6. CASE TryLoad(job[d].path) = Missing /\ TryLoad(report[d].path) = Missing /\ report[d].config # Missing
    BY <1>1, <1>2, <1>3, <1>6 DEF ProjectConfig
  <1>7. CASE TryLoad(job[d].path) = Missing /\ TryLoad(report[d].path) = Missing /\ report[d].config = Missing
    <2>1. found = [path |-> IF TryLoad(d) # Missing THEN d ELSE Nowhere, config |-> TryLoad(d)]
      BY <1>2, <1>7 DEF ProjectConfig
    <2> QED BY <1>1, <1>2, <1>3, <2>1, StampIs
  <1> QED BY <1>4, <1>5, <1>6, <1>7

LEMMA OpenDirStep ==
  ASSUME Inv, NEW t \in Tabs, OpenDir(t)
  PROVE  Inv'
  <1>1. At(t, "setup") /\ UNCHANGED Disk
    BY DEF OpenDir
  <1>2. PICK d \in Names : LET found == ProjectConfig(d) IN
          tab' = [tab EXCEPT ![t].pc = "opening",
                             ![t].held = [path |-> found.path, config |-> found.config, dir |-> d, read |-> StampOf(found.path)]]
    BY DEF OpenDir
  <1>3. PICK found : found = ProjectConfig(d)
    OBVIOUS
  <1>4. PICK h : h = [path |-> found.path, config |-> found.config, dir |-> d, read |-> StampOf(found.path)]
    OBVIOUS
  <1>5. PICK s : s = tab[t]
    OBVIOUS
  <1>6. PICK u : u = [s EXCEPT !.pc = "opening", !.held = h]
    OBVIOUS
  <1>7. tab' = [tab EXCEPT ![t] = u]
    BY <1>2, <1>3, <1>4, <1>5, <1>6, TabIs
  <1>8. /\ found.path \in PathBox /\ found.config \in Config \cup {Missing}
        /\ found.path \in Names => found.config # Missing /\ found.config = file[found.path]
    BY <1>3, ProjectConfigIs
  <1>9. /\ Shape(s) /\ Now(s) = s.form /\ DOMAIN s.widgets = Keys /\ acts' \in Nat /\ s.page = "setup"
        /\ Honest(s, s.form, file, stamp, clock)
    BY <1>1, <1>5, TabIs, AtSetup DEF At
  <1>10. /\ DOMAIN u = Fields /\ u.form = s.form /\ u.widgets = s.widgets /\ u.project = s.project
         /\ u.page = s.page /\ u.edited = s.edited /\ u.overtaken = s.overtaken /\ u.intent = s.intent
         /\ u.pc = "opening" /\ u.held = h
    BY <1>6, <1>9 DEF Shape, Fields
  <1>11. Shape(u) /\ Now(u) = s.form
    <2>1. /\ u.project \in PathBox \cup {Uploads} /\ u.page \in {"setup", "run"}
          /\ u.edited \in BOOLEAN /\ u.overtaken \in BOOLEAN /\ u.intent \in BOOLEAN
      BY <1>9, <1>10 DEF Shape
    <2> QED BY <1>9, <1>10, <2>1, FlagsIs
  <1>12. Settled(u) /\ Honest(u, Now(u), file, stamp, clock)
    BY <1>9, <1>10, <1>11 DEF Settled, Honest
  <1>13. /\ h.path = found.path /\ h.config = found.config /\ h.dir = d /\ h.read = StampOf(found.path)
         /\ h.read \in 0..clock
    BY <1>4, <1>8, StampIs
  <1>14. Holding(u, Now(u), file, stamp, clock)
    BY <1>8, <1>10, <1>13 DEF Holding
  <1>15. TabOK(u, file, stamp, clock)
    BY <1>11, <1>12, <1>14 DEF TabOK
  <1> QED BY <1>1, <1>7, <1>9, <1>15, Moves

LEMMA OpenedStep ==
  ASSUME Inv, NEW t \in Tabs, Opened(t)
  PROVE  Inv'
  <1>1. PICK s : s = tab[t]
    OBVIOUS
  <1>2. PICK h : h = s.held
    OBVIOUS
  <1>3. /\ Shape(s) /\ UNCHANGED Disk /\ acts' \in Nat
        /\ h.path \in PathBox /\ h.config \in Config \cup {Missing} /\ h.dir \in Names /\ h.read \in 0..clock
        /\ h.path \in Names => h.config # Missing /\ file[h.path] # Missing
        /\ h.path \in Names /\ stamp[h.path] = h.read => file[h.path] = h.config
    BY <1>1, <1>2, TabIs DEF Opened, Holding, Disk
  <1>4. PICK values : values = IF h.config = Missing THEN [dir |-> h.dir]
                   ELSE Over([stamp |-> StampOf(h.path)], FormFromConfig(h.config, h.dir, h.path))
    OBVIOUS
  <1>5. PICK r : r = ReplaceForm(s, values)
    OBVIOUS
  <1>6. PICK u : u = [r EXCEPT !.project = h.dir, !.edited = h.path = Nowhere,
                               !.overtaken = StampOf(h.path) # h.read,
                               !.intent = h.config # Missing /\ h.config.approved]
    OBVIOUS
  <1>7. RunScript(t, u)
    BY <1>1, <1>2, <1>4, <1>5, <1>6, Zenon DEF Opened
  <1>8. Nowhere \notin Names /\ h.dir \in PathBox
    BY <1>3, SessionAssumption DEF PathBox
  <1>9. Fits(values)
    <2>1. CASE h.config = Missing
      BY <1>4, <1>8, <2>1 DEF Fits, FormKeys, Keys
    <2>2. CASE h.config # Missing
      <3>1. PICK b : b = FormFromConfig(h.config, h.dir, h.path)
        OBVIOUS
      <3>2. DOMAIN b = Keys /\ Fits(b)
        BY <1>3, <1>8, <2>2, <3>1, ConfigForm
      <3>3. StampOf(h.path) \in Nat
        BY <1>3, StampIs
      <3> QED BY <1>4, <2>2, <3>1, <3>2, <3>3, StampedForm
    <2> QED BY <2>1, <2>2
  <1>10. /\ Shape(r) /\ Now(r) = Over(values, EmptyForm)
    BY <1>3, <1>5, <1>9, ReplaceFormIs
  <1>11. /\ DOMAIN u = Fields /\ u.form = r.form /\ u.widgets = r.widgets /\ u.page = r.page /\ u.pc = r.pc
         /\ u.project = h.dir
    BY <1>6, <1>10 DEF Shape, Fields
  <1>12. /\ u.edited <=> h.path = Nowhere
         /\ u.overtaken <=> StampOf(h.path) # h.read
    BY <1>6, <1>10 DEF Shape, Fields
  <1>13. u.intent = (h.config # Missing /\ h.config.approved)
    BY <1>6, <1>10 DEF Shape, Fields
  <1>14. u.edited \in BOOLEAN /\ u.overtaken \in BOOLEAN /\ u.intent \in BOOLEAN
    BY <1>6, <1>10 DEF Shape, Fields
  <1>15. Shape(u) /\ Now(u) = Now(r)
    <2>1. /\ u.project \in PathBox \cup {Uploads} /\ u.page \in {"setup", "run"}
          /\ u.pc \in {"idle", "begin", "reload", "opening", "saved", "reviewing"}
      BY <1>8, <1>10, <1>11 DEF Shape
    <2> QED BY <1>10, <1>11, <1>14, <2>1, FlagsIs
  <1>16. Honest(u, Now(u), file, stamp, clock)
    <2>1. CASE h.config = Missing
      <3>1. h.path = Nowhere
        BY <1>3, <2>1 DEF PathBox
      <3>2. Now(u).approved = FALSE /\ Now(u).stamp = 0
        BY <1>4, <1>10, <1>15, <2>1 DEF Over, EmptyForm
      <3>3. u.intent = FALSE
        BY <1>13, <2>1
      <3>4. clock \in Nat
        BY DEF Inv, FilesOK
      <3>5. u.edited
        BY <1>12, <3>1
      <3>6. Now(u).approved = u.intent
        BY <3>2, <3>3
      <3> QED BY <3>2, <3>4, <3>5, <3>6 DEF Honest
    <2>2. CASE h.config # Missing
      <3>1. PICK b : b = FormFromConfig(h.config, h.dir, h.path)
        OBVIOUS
      <3>2. /\ DOMAIN b = Keys /\ Fits(b) /\ b.approved = h.config.approved /\ b.yaml = h.config
            /\ b.path = IF h.path = Nowhere THEN h.config.dir ELSE h.path
        BY <1>3, <1>8, <2>2, <3>1, ConfigForm
      <3>3. StampOf(h.path) \in Nat /\ StampOf(h.path) <= clock /\ StampOf(h.path) = Mtime(stamp, h.path)
        BY <1>3, StampIs
      <3>4. /\ DOMAIN values = FormKeys /\ values.stamp = StampOf(h.path) /\ \A k \in Keys : values[k] = b[k]
        BY <1>4, <2>2, <3>1, <3>2, <3>3, StampedForm
      <3>5. \A k \in FormKeys : Now(u)[k] = values[k]
        BY <1>10, <1>15, <3>4 DEF Over
      <3>6. /\ Now(u).approved = h.config.approved /\ Now(u).yaml = h.config
            /\ Now(u).path = b.path /\ Now(u).stamp = StampOf(h.path)
        BY <3>2, <3>4, <3>5 DEF FormKeys, Keys
      <3>7. h.config.approved \in BOOLEAN
        BY <1>3, <2>2 DEF Config
      <3>8. u.intent = h.config.approved
        BY <1>13, <2>2, <3>7
      <3>9. Now(u).approved = u.intent
        BY <3>6, <3>8
      <3>10. ~u.edited => h.path \in Names /\ Now(u).path = h.path
        BY <1>3, <1>12, <3>2, <3>6 DEF PathBox
      <3>11. ~u.edited => Now(u).stamp # 0
        BY <1>3, <3>6, <3>10, StampIs DEF TryLoad
      <3>12. ~u.edited /\ ~u.overtaken => Now(u).yaml = file[Now(u).path]
        BY <1>3, <1>12, <3>3, <3>6, <3>10 DEF Mtime
      <3> QED BY <3>3, <3>6, <3>9, <3>11, <3>12 DEF Honest
    <2> QED BY <2>1, <2>2
  <1> QED BY <1>3, <1>7, <1>15, <1>16, Runs

LEMMA GenerateYamlStep ==
  ASSUME Inv, NEW t \in Tabs, GenerateYaml(t)
  PROVE  Inv'
  <1>1. PICK s : s = Capture(tab[t])
    OBVIOUS
  <1>2. At(t, "setup") /\ UNCHANGED Disk
    BY DEF GenerateYaml
  <1>3. /\ Shape(s) /\ Now(s) = Now(tab[t]) /\ acts' \in Nat
        /\ s.edited = tab[t].edited /\ s.overtaken = tab[t].overtaken /\ s.intent = tab[t].intent
    BY <1>1, <1>2, TabIs, AtSetup, CaptureIs DEF Fields
  <1>4. Honest(s, Now(s), file, stamp, clock)
    BY <1>3, TabIs DEF Honest
  <1>5. CASE RunScript(t, s)
    BY <1>2, <1>3, <1>4, <1>5, Runs
  <1>6. ASSUME NEW cfg \in BuildConfig(s.form), NEW u, RunScript(t, u),
               u = [SetForm(s, [yaml |-> cfg, dir |-> cfg.dir]) EXCEPT !.edited = TRUE]
        PROVE  Inv'
    <2>1. PICK v : v = [yaml |-> cfg, dir |-> cfg.dir]
      OBVIOUS
    <2>2. cfg \in Config /\ cfg.dir \in Names
      BY DEF BuildConfig, Config
    <2>3. Fits(v) /\ DOMAIN v = {"yaml", "dir"}
      BY <2>1, <2>2 DEF Fits, FormKeys, Keys, PathBox
    <2>4. Shape(u) /\ Honest(u, Now(u), file, stamp, clock)
      BY <1>3, <1>4, <1>6, <2>1, <2>3, EditedIs
    <2> QED BY <1>2, <1>3, <1>6, <2>4, Runs
  <1>7. \/ RunScript(t, s)
        \/ \E cfg \in BuildConfig(s.form) :
             RunScript(t, [SetForm(s, [yaml |-> cfg, dir |-> cfg.dir]) EXCEPT !.edited = TRUE])
    BY <1>1, ZenonT(60) DEF GenerateYaml
  <1> QED BY <1>5, <1>6, <1>7

----
(* The steps that write a config file, and the jobs *)

Texted(s, text) == [s EXCEPT !.form.yaml = text]

\* What a button under the YAML box works with: the text is the form's.
LEMMA YamlIs ==
  ASSUME Inv, NEW t \in Tabs, At(t, "setup")
  PROVE  LET s == Capture(tab[t])
             text == YamlText(s)
             u == Texted(s, text)
         IN  /\ text \in Config \cup {Blank, Broken}
             /\ s.form \in Form
             /\ Shape(u) /\ Now(u) = u.form /\ u.form.yaml = text
             /\ Honest(u, u.form, file, stamp, clock)
  <1>10. PICK s : s = Capture(tab[t])
    OBVIOUS
  <1>11. PICK text : text = YamlText(s)
    OBVIOUS
  <1>12. PICK u : u = Texted(s, text)
    OBVIOUS
  <1>1. /\ Shape(s) /\ s.form = Now(tab[t]) /\ Now(s) = s.form /\ s.widgets = tab[t].widgets
        /\ s.edited = tab[t].edited /\ s.overtaken = tab[t].overtaken /\ s.intent = tab[t].intent
        /\ s.project = tab[t].project /\ s.page = tab[t].page /\ s.pc = tab[t].pc
    BY <1>10, TabIs, CaptureIs DEF Fields
  <1>2. s.widgets.yaml = s.form.yaml /\ "yaml" \in DOMAIN s.widgets
    BY <1>1, AtSetup DEF Keys
  <1>3. text = s.form.yaml
    BY <1>11, <1>2 DEF YamlText
  <1>4. /\ s.form \in Form /\ DOMAIN s = Fields
    BY <1>1 DEF Shape
  <1>5. s.form.yaml \in Config \cup {Blank, Broken} /\ s.form = [k \in FormKeys |-> s.form[k]]
    BY <1>4, FormIs DEF Form
  <1>6. [s.form EXCEPT !.yaml = text] = s.form
    BY <1>3, <1>5 DEF FormKeys, Keys
  <1>7. /\ DOMAIN u = Fields /\ u.form = s.form /\ u.widgets = s.widgets /\ u.project = s.project /\ u.page = s.page
        /\ u.pc = s.pc /\ u.edited = s.edited /\ u.overtaken = s.overtaken /\ u.intent = s.intent
    BY <1>12, <1>4, <1>6 DEF Texted, Fields
  <1>8. Shape(u) /\ Now(u) = Now(s)
    <2>1. /\ u.project \in PathBox \cup {Uploads} /\ u.page \in {"setup", "run"}
          /\ u.pc \in {"idle", "begin", "reload", "opening", "saved", "reviewing"}
          /\ u.edited \in BOOLEAN /\ u.overtaken \in BOOLEAN /\ u.intent \in BOOLEAN
      BY <1>1, <1>7 DEF Shape
    <2> QED BY <1>1, <1>7, <2>1, FlagsIs
  <1>9. Honest(u, u.form, file, stamp, clock)
    BY <1>1, <1>7, TabIs DEF Honest
  <1> QED BY <1>10, <1>11, <1>12, <1>1, <1>3, <1>4, <1>5, <1>7, <1>8, <1>9

\* The form and the project follow the text.
LEMMA FollowIs ==
  ASSUME NEW s, NEW text \in Config, Shape(Texted(s, text)), Now(Texted(s, text)) = Texted(s, text).form,
         NEW fl, NEW st, NEW ck, Honest(Texted(s, text), Texted(s, text).form, fl, st, ck)
  PROVE  LET q == FollowYaml(s, text)
         IN  /\ Shape(q) /\ Now(q) = q.form /\ Honest(q, q.form, fl, st, ck)
             /\ q.form.yaml = Texted(s, text).form.yaml
  <1>0. PICK u : u = Texted(s, text)
    OBVIOUS
  <1>1. PICK v : v = [dir |-> text.dir, target |-> TRUE]
    OBVIOUS
  <1>2. text.dir \in PathBox
    BY DEF Config, PathBox
  <1>3. Fits(v) /\ DOMAIN v = {"dir", "target"}
    BY <1>1, <1>2 DEF Fits, FormKeys, Keys
  <1>4. PICK q : q = SetForm(u, v)
    OBVIOUS
  <1>5. q = FollowYaml(s, text)
    BY <1>0, <1>1, <1>4 DEF FollowYaml, Texted
  <1>6. /\ Shape(q) /\ Now(q) = q.form
        /\ \A k \in FormKeys : q.form[k] = IF k \in DOMAIN v THEN v[k] ELSE u.form[k]
        /\ \A k \in Fields \ {"form", "widgets"} : q[k] = u[k]
    BY <1>0, <1>3, <1>4, SetFormIs
  <1>7. /\ q.form.approved = u.form.approved /\ q.form.stamp = u.form.stamp
        /\ q.form.path = u.form.path /\ q.form.yaml = u.form.yaml
    BY <1>3, <1>6 DEF FormKeys, Keys
  <1>8. q.edited = u.edited /\ q.overtaken = u.overtaken /\ q.intent = u.intent
    BY <1>6 DEF Fields
  <1>9. Honest(q, q.form, fl, st, ck)
    BY <1>0, <1>7, <1>8 DEF Honest
  <1> QED BY <1>0, <1>5, <1>6, <1>7, <1>9

\* A write of a config, a tab that moves with it, and a job that is recorded.
LEMMA Writes ==
  ASSUME Inv, NEW p \in Names, NEW cfg \in Config, Write(p, cfg),
         DOMAIN tab' = Tabs, \A t \in Tabs : tab'[t] = tab[t] \/ TabOK(tab'[t], file', stamp', clock'),
         DOMAIN job' = Names, \A d \in Names : job'[d] = job[d] \/ JobOK(d, job'[d], file', stamp', clock'),
         review' = review, report' = report, acts' \in Nat
  PROVE  Inv'
  <1>1. /\ file' = [file EXCEPT ![p] = cfg] /\ stamp' = [stamp EXCEPT ![p] = clock + 1] /\ clock' = clock + 1
    BY DEF Write
  <1>2. FilesOK(file, stamp, clock)
    BY DEF Inv
  <1>3. FilesOK(file', stamp', clock')
    BY <1>1, <1>2, WriteKeepsFiles
  <1>4. ASSUME NEW t \in Tabs
        PROVE  TabOK(tab'[t], file', stamp', clock')
    <2>1. TabOK(tab[t], file', stamp', clock')
      BY <1>1, <1>2, WriteKeepsTab DEF Inv
    <2> QED BY <2>1
  <1>5. ASSUME NEW d \in Names
        PROVE  JobOK(d, job'[d], file', stamp', clock')
    <2>1. JobOK(d, job[d], file', stamp', clock')
      BY <1>1, <1>2, WriteKeepsJob DEF Inv
    <2> QED BY <2>1
  <1>6. RestOK'
    BY DEF Inv, RestOK
  <1> QED BY <1>3, <1>4, <1>5, <1>6 DEF Inv

LEMMA YamlActionStep ==
  ASSUME Inv, NEW t \in Tabs, YamlAction(t)
  PROVE  Inv'
  <1>1. PICK s : s = Capture(tab[t])
    OBVIOUS
  <1>2. PICK text : text = YamlText(s)
    OBVIOUS
  <1>3. \/ RunScript(t, Texted(s, text)) /\ UNCHANGED <<file, stamp, clock>>
        \/ Valid(text) /\ RunScript(t, FollowYaml(s, text)) /\ UNCHANGED <<file, stamp, clock>>
        \/ /\ Valid(text)
           /\ \E p \in IF s.form.path = Nowhere THEN Names ELSE {s.form.path},
                 action \in {"save", "full"} :
                /\ Write(p, text)
                /\ tab' = [tab EXCEPT ![t] =
                     [FollowYaml(s, text) EXCEPT !.pc = "saved",
                        !.held = [path |-> p, dir |-> text.dir, action |-> action, wrote |-> clock + 1]]]
    BY <1>1, <1>2, ZenonT(60) DEF YamlAction, Texted
  <1>4. At(t, "setup") /\ UNCHANGED <<job, review, report>>
    BY ZenonT(60) DEF YamlAction
  <1>5. PICK u : u = Texted(s, text)
    OBVIOUS
  <1>6. /\ text \in Config \cup {Blank, Broken} /\ acts' \in Nat /\ s.form \in Form
        /\ Shape(u) /\ Now(u) = u.form /\ u.form.yaml = text
        /\ Honest(u, u.form, file, stamp, clock)
    BY <1>1, <1>2, <1>4, <1>5, YamlIs, AtSetup
  <1>7. Valid(text) => text \in Config
    BY <1>6 DEF Valid, Blank, Broken
  <1>8. PICK q : q = FollowYaml(s, text)
    OBVIOUS
  <1>9. text \in Config => /\ Shape(q) /\ Now(q) = q.form /\ Honest(q, q.form, file, stamp, clock)
                           /\ q.form.yaml = text
    BY <1>5, <1>6, <1>8, FollowIs
  <1>10. CASE RunScript(t, u) /\ UNCHANGED <<file, stamp, clock>>
    <2>1. UNCHANGED Disk
      BY <1>4, <1>10 DEF Disk
    <2> QED BY <1>6, <1>10, <2>1, Runs
  <1>11. CASE text \in Config /\ RunScript(t, q) /\ UNCHANGED <<file, stamp, clock>>
    <2>1. UNCHANGED Disk
      BY <1>4, <1>11 DEF Disk
    <2> QED BY <1>6, <1>9, <1>11, <2>1, Runs
  <1>12. ASSUME text \in Config, NEW p \in IF s.form.path = Nowhere THEN Names ELSE {s.form.path},
                NEW action \in {"save", "full"}, Write(p, text),
                tab' = [tab EXCEPT ![t] = [q EXCEPT !.pc = "saved",
                        !.held = [path |-> p, dir |-> text.dir, action |-> action, wrote |-> clock + 1]]]
         PROVE  Inv'
    <2>1. PICK h : h = [path |-> p, dir |-> text.dir, action |-> action, wrote |-> clock + 1]
      OBVIOUS
    <2>2. PICK r : r = [q EXCEPT !.pc = "saved", !.held = h]
      OBVIOUS
    <2>3. tab' = [tab EXCEPT ![t] = r]
      BY <1>12, <2>1, <2>2
    <2>4. /\ Shape(q) /\ Now(q) = q.form /\ Honest(q, q.form, file, stamp, clock) /\ q.form.yaml = text
      BY <1>9, <1>12
    <2>5. p \in Names
      BY <1>6, <1>12 DEF Form, PathBox
    <2>6. /\ DOMAIN r = Fields /\ r.form = q.form /\ r.widgets = q.widgets /\ r.project = q.project /\ r.page = q.page
          /\ r.edited = q.edited /\ r.overtaken = q.overtaken /\ r.intent = q.intent
          /\ r.pc = "saved" /\ r.held = h
      BY <2>2, <2>4 DEF Shape, Fields
    <2>7. Shape(r) /\ Now(r) = q.form
      <3>1. /\ r.project \in PathBox \cup {Uploads} /\ r.page \in {"setup", "run"}
            /\ r.edited \in BOOLEAN /\ r.overtaken \in BOOLEAN /\ r.intent \in BOOLEAN
        BY <2>4, <2>6 DEF Shape
      <3> QED BY <2>4, <2>6, <3>1, FlagsIs
    <2>8. /\ FilesOK(file, stamp, clock) /\ clock \in Nat /\ q.form.stamp \in Nat /\ q.form.path \in PathBox
          /\ file' = [file EXCEPT ![p] = text] /\ stamp' = [stamp EXCEPT ![p] = clock + 1] /\ clock' = clock + 1
      BY <1>12, <2>4 DEF Inv, FilesOK, Write, Shape, Form
    <2>9. /\ \A n \in Names : n # p => file'[n] = file[n] /\ stamp'[n] = stamp[n]
          /\ file'[p] = text /\ stamp'[p] = clock + 1
      BY <2>5, <2>8 DEF FilesOK
    <2>10. Honest(r, q.form, file', stamp', clock')
      BY <2>4, <2>6, <2>8, <2>9 DEF Honest, Mtime
    <2>11. text.dir \in Names /\ text # Missing
      BY <1>12 DEF Config, Missing
    <2>12. /\ h.path = p /\ h.dir = text.dir /\ h.action = action /\ h.wrote = clock + 1
           /\ h.wrote \in 1..clock' /\ h.action \in {"save", "full"}
      BY <1>12, <2>1, <2>8
    <2>13. Holding(r, q.form, file', stamp', clock')
      BY <1>12, <2>4, <2>5, <2>6, <2>9, <2>11, <2>12 DEF Holding
    <2>14. Settled(r)
      BY <2>6, <2>7 DEF Settled
    <2>15. TabOK(r, file', stamp', clock')
      BY <2>7, <2>10, <2>13, <2>14 DEF TabOK
    <2>16. DOMAIN tab = Tabs /\ DOMAIN job' = Names /\ \A d \in Names : job'[d] = job[d]
      BY <1>4 DEF Inv
    <2>17. DOMAIN tab' = Tabs /\ \A x \in Tabs : tab'[x] = tab[x] \/ TabOK(tab'[x], file', stamp', clock')
      BY <2>3, <2>15, <2>16
    <2>18. Write(p, text) /\ text \in Config /\ review' = review /\ report' = report /\ acts' \in Nat
      BY <1>4, <1>6, <1>12
    <2> QED BY <2>5, <2>16, <2>17, <2>18, Writes
  <1>13. CASE Valid(text) /\ RunScript(t, q) /\ UNCHANGED <<file, stamp, clock>>
    BY <1>7, <1>11, <1>13
  <1>14. CASE /\ Valid(text)
              /\ \E p \in IF s.form.path = Nowhere THEN Names ELSE {s.form.path},
                 action \in {"save", "full"} :
                /\ Write(p, text)
                /\ tab' = [tab EXCEPT ![t] =
                     [q EXCEPT !.pc = "saved",
                        !.held = [path |-> p, dir |-> text.dir, action |-> action, wrote |-> clock + 1]]]
    BY <1>7, <1>12, <1>14, Zenon
  <1> QED BY <1>3, <1>5, <1>8, <1>10, <1>13, <1>14, Zenon

\* A step that writes no file.
LEMMA Reads ==
  ASSUME Inv, UNCHANGED <<file, stamp, clock>>,
         DOMAIN tab' = Tabs, \A t \in Tabs : tab'[t] = tab[t] \/ TabOK(tab'[t], file, stamp, clock),
         DOMAIN job' = Names, \A d \in Names : job'[d] = job[d] \/ JobOK(d, job'[d], file, stamp, clock),
         RestOK'
  PROVE  Inv'
  BY DEF Inv

LEMMA StartedIs ==
  ASSUME Inv, NEW d \in Names, NEW p \in Names, NEW by \in {"setup", "run"}, NEW wrote \in Nat,
         NEW fl, NEW st, NEW ck,
         fl[p] # Missing, by = "setup" => wrote \in 1..ck /\ (st[p] = wrote => fl[p].dir = d),
         StartJob(d, p, by, wrote)
  PROVE  /\ DOMAIN job' = Names
         /\ \A x \in Names : job'[x] = job[x] \/ JobOK(x, job'[x], fl, st, ck)
  <1>1. DOMAIN job = Names
    BY DEF Inv
  <1>2. PICK j : j = [NoJob EXCEPT !.path = p, !.running = TRUE, !.by = by, !.wrote = wrote]
    OBVIOUS
  <1>3. j = [path |-> p, running |-> TRUE, by |-> by, wrote |-> wrote, into |-> Nowhere, seen |-> 0]
    BY <1>2 DEF NoJob
  <1>4. j \in Job
    BY <1>3 DEF Job, PathBox
  <1>5. JobOK(d, j, fl, st, ck)
    BY <1>3, <1>4 DEF JobOK
  <1>6. job' = job \/ job' = [job EXCEPT ![d] = j]
    BY <1>2 DEF StartJob
  <1> QED BY <1>1, <1>5, <1>6

LEMMA SavedStep ==
  ASSUME Inv, NEW t \in Tabs, Saved(t)
  PROVE  Inv'
  <1>1. PICK s : s = tab[t]
    OBVIOUS
  <1>2. PICK h : h = s.held
    OBVIOUS
  <1>3. /\ Shape(s) /\ Now(s) = s.form /\ s.form \in Form /\ Honest(s, s.form, file, stamp, clock)
        /\ h.path \in Names /\ h.dir \in Names /\ h.wrote \in 1..clock /\ h.action \in {"save", "full"}
        /\ s.form.yaml \in Config /\ s.form.yaml.dir = h.dir
        /\ file[h.path] # Missing /\ (stamp[h.path] = h.wrote => file[h.path] = s.form.yaml)
    BY <1>1, <1>2, TabIs DEF Saved, Settled, Holding, Shape
  <1>4. UNCHANGED <<file, stamp, clock>> /\ UNCHANGED <<acts, review, report>> /\ RestOK'
    BY DEF Saved, Inv, RestOK
  <1>5. PICK v : v = [path |-> h.path]
    OBVIOUS
  <1>6. Fits(v) /\ DOMAIN v = {"path"}
    BY <1>3, <1>5 DEF Fits, FormKeys, Keys, PathBox
  <1>7. PICK q : q = SetForm(s, v)
    OBVIOUS
  <1>8. /\ Shape(q) /\ Now(q) = q.form /\ q.form \in Form /\ q.form.path = h.path
        /\ q.form.approved = s.form.approved /\ q.form.yaml = s.form.yaml
        /\ q.intent = s.intent
    <2>1. /\ Shape(q) /\ Now(q) = q.form
          /\ \A k \in FormKeys : q.form[k] = IF k \in DOMAIN v THEN v[k] ELSE s.form[k]
          /\ \A k \in Fields \ {"form", "widgets"} : q[k] = s[k]
      BY <1>3, <1>6, <1>7, SetFormIs
    <2>2. q.intent = s.intent
      BY <2>1 DEF Fields
    <2>3. v.path = h.path
      BY <1>5
    <2> QED BY <1>6, <2>1, <2>2, <2>3 DEF FormKeys, Keys, Shape
  <1>9. PICK m : m = StampOf(h.path)
    OBVIOUS
  <1>10. m \in Nat /\ m <= clock /\ m = stamp[h.path] /\ m # 0
    BY <1>3, <1>9, StampIs DEF PathBox, StampOf, TryLoad
  <1>11. PICK u : u = [q EXCEPT !.form.stamp = m, !.edited = FALSE, !.overtaken = m # h.wrote]
    OBVIOUS
  <1>12. /\ DOMAIN u = Fields /\ u.form = [q.form EXCEPT !.stamp = m] /\ u.widgets = q.widgets
         /\ u.project = q.project /\ u.page = q.page /\ u.pc = q.pc /\ u.intent = q.intent
    BY <1>8, <1>11 DEF Shape, Fields
  <1>13. ~u.edited /\ u.edited \in BOOLEAN /\ u.overtaken \in BOOLEAN
    BY <1>8, <1>11 DEF Shape, Fields
  <1>14. u.overtaken <=> m # h.wrote
    BY <1>8, <1>11 DEF Shape, Fields
  <1>15. /\ u.form \in Form /\ u.form.stamp = m
         /\ \A k \in Keys : u.form[k] = q.form[k]
    BY <1>8, <1>10, <1>12 DEF Form, Keys
  <1>16. Now(u) = u.form
    <2>1. \A k \in DOMAIN q.widgets : k \in Keys /\ q.widgets[k] = q.form[k]
      <3>1. \A k \in DOMAIN q.widgets : Now(q)[k] = q.widgets[k]
        BY CopiesAre
      <3> QED BY <1>8, <3>1 DEF Shape
    <2>2. DOMAIN u.form = FormKeys /\ Keys \subseteq FormKeys /\ u.form = [k \in FormKeys |-> u.form[k]]
      BY <1>15, FormIs DEF FormKeys
    <2>3. Now(u) = [k \in FormKeys |-> u.form[k]]
      BY <1>12, <1>15, <2>1, <2>2 DEF Now, Over
    <2> QED BY <2>2, <2>3
  <1>17. Shape(u)
    <2>1. /\ u.project \in PathBox \cup {Uploads} /\ u.page \in {"setup", "run"} /\ u.intent \in BOOLEAN
          /\ u.pc \in {"idle", "begin", "reload", "opening", "saved", "reviewing"}
          /\ DOMAIN u.widgets \subseteq Keys
      BY <1>8, <1>12 DEF Shape
    <2>2. u.edited \in BOOLEAN /\ u.overtaken \in BOOLEAN /\ DOMAIN u = Fields
      BY <1>12, <1>13
    <2> QED BY <1>15, <1>16, <2>1, <2>2 DEF Shape
  <1>18. Honest(u, u.form, file, stamp, clock)
    <2>1. u.form.path = h.path /\ u.form.approved = s.form.approved /\ u.form.yaml = s.form.yaml
      BY <1>8, <1>15 DEF Keys
    <2>2. u.form.approved = u.intent
      BY <1>3, <1>8, <1>12, <2>1 DEF Honest
    <2>3. ~u.overtaken => u.form.yaml = file[u.form.path]
      BY <1>3, <1>10, <1>14, <2>1
    <2> QED BY <1>10, <1>15, <2>2, <2>3 DEF Honest
  <1>19. PICK w : w = [u EXCEPT !.page = "run"]
    OBVIOUS
  <1>20. Shape(w) /\ Now(w) = u.form /\ Honest(w, Now(w), file, stamp, clock)
    <2>1. /\ DOMAIN w = Fields /\ w.form = u.form /\ w.widgets = u.widgets /\ w.page = "run"
          /\ w.project = u.project /\ w.pc = u.pc
          /\ w.edited = u.edited /\ w.overtaken = u.overtaken /\ w.intent = u.intent
      BY <1>17, <1>19 DEF Shape, Fields
    <2>2. /\ w.project \in PathBox \cup {Uploads} /\ w.page \in {"setup", "run"}
          /\ w.pc \in {"idle", "begin", "reload", "opening", "saved", "reviewing"}
          /\ w.edited \in BOOLEAN /\ w.overtaken \in BOOLEAN /\ w.intent \in BOOLEAN
      BY <1>17, <2>1 DEF Shape
    <2>3. Shape(w) /\ Now(w) = u.form
      BY <1>16, <1>17, <2>1, <2>2, FlagsIs
    <2> QED BY <1>18, <2>1, <2>3 DEF Honest
  <1>21. TabOK(Begun(u), file, stamp, clock) /\ TabOK(Begun(w), file, stamp, clock)
    BY <1>16, <1>17, <1>18, <1>20, BegunIs
  <1>22. \/ RunScript(t, u) /\ UNCHANGED job
         \/ StartJob(h.dir, h.path, "setup", h.wrote) /\ (RunScript(t, u) \/ RunScript(t, w))
    BY <1>1, <1>2, <1>5, <1>7, <1>9, <1>11, <1>19, ZenonT(60) DEF Saved
  <1>23. DOMAIN tab = Tabs /\ DOMAIN job = Names
    BY DEF Inv
  <1>24. /\ DOMAIN tab' = Tabs
         /\ \A x \in Tabs : tab'[x] = tab[x] \/ TabOK(tab'[x], file, stamp, clock)
    <2>1. RunScript(t, u) \/ RunScript(t, w)
      BY <1>22
    <2>2. tab' = [tab EXCEPT ![t] = Begun(u)] \/ tab' = [tab EXCEPT ![t] = Begun(w)]
      BY <2>1 DEF RunScript, Begun
    <2> QED BY <1>21, <1>23, <2>2
  <1>25. /\ DOMAIN job' = Names
         /\ \A d \in Names : job'[d] = job[d] \/ JobOK(d, job'[d], file, stamp, clock)
    <2>1. CASE UNCHANGED job
      BY <1>23, <2>1
    <2>2. CASE StartJob(h.dir, h.path, "setup", h.wrote)
      <3>1. h.wrote \in Nat /\ (stamp[h.path] = h.wrote => file[h.path].dir = h.dir)
        BY <1>3, <1>10
      <3> QED BY <1>3, <2>2, <3>1, StartedIs
    <2> QED BY <1>22, <2>1, <2>2
  <1> QED BY <1>4, <1>24, <1>25, Reads

LEMMA ReviewStep ==
  ASSUME Inv, NEW t \in Tabs, Review(t)
  PROVE  Inv'
  <1>1. PICK s : s = tab[t]
    OBVIOUS
  <1>2. PICK d : d = s.project
    OBVIOUS
  <1>3. PICK p : p = ReviewedConfig(d, s)
    OBVIOUS
  <1>4. /\ At(t, "run") /\ UNCHANGED Disk /\ d \in review /\ TryLoad(p) # Missing
    BY <1>1, <1>2, <1>3 DEF Review
  <1>5. PICK n \in Notes, action \in {"feedback", "regenerate", "approve"} :
          tab' = [tab EXCEPT ![t].pc = "reviewing",
                    ![t].held = [path |-> p, dir |-> d, action |-> action,
                      config |-> IF action = "approve" THEN [file[p] EXCEPT !.approved = TRUE]
                                 ELSE [file[p] EXCEPT !.notes = @ \cup {n}]]]
    BY <1>1, <1>2, <1>3 DEF Review
  <1>6. /\ d \in Names /\ acts' \in Nat
    BY <1>4, TabIs DEF Inv, RestOK, At
  <1>7. p \in Names /\ file[p] \in Config
    BY <1>4 DEF TryLoad, Inv, FilesOK
  <1>8. PICK cfg : cfg = IF action = "approve" THEN [file[p] EXCEPT !.approved = TRUE]
                         ELSE [file[p] EXCEPT !.notes = @ \cup {n}]
    OBVIOUS
  <1>9. cfg \in Config
    <2>1. [file[p] EXCEPT !.approved = TRUE] \in Config
      BY <1>7 DEF Config
    <2>2. [file[p] EXCEPT !.notes = @ \cup {n}] \in Config
      BY <1>7 DEF Config
    <2> QED BY <1>8, <2>1, <2>2
  <1>10. PICK h : h = [path |-> p, dir |-> d, action |-> action, config |-> cfg]
    OBVIOUS
  <1>11. PICK u : u = [s EXCEPT !.pc = "reviewing", !.held = h]
    OBVIOUS
  <1>12. tab' = [tab EXCEPT ![t] = u]
    BY <1>1, <1>5, <1>8, <1>10, <1>11, TabIs
  <1>13. /\ Shape(s) /\ Now(s) = s.form /\ Honest(s, s.form, file, stamp, clock)
         /\ s.page = "run" /\ DOMAIN s.widgets = {}
    BY <1>1, <1>4, TabIs DEF At, Settled
  <1>14. /\ DOMAIN u = Fields /\ u.form = s.form /\ u.widgets = s.widgets /\ u.project = s.project
         /\ u.page = s.page /\ u.edited = s.edited /\ u.overtaken = s.overtaken /\ u.intent = s.intent
         /\ u.pc = "reviewing" /\ u.held = h
    BY <1>11, <1>13 DEF Shape, Fields
  <1>15. Shape(u) /\ Now(u) = s.form
    <2>1. /\ u.project \in PathBox \cup {Uploads} /\ u.page \in {"setup", "run"}
          /\ u.edited \in BOOLEAN /\ u.overtaken \in BOOLEAN /\ u.intent \in BOOLEAN
      BY <1>13, <1>14 DEF Shape
    <2> QED BY <1>13, <1>14, <2>1, FlagsIs
  <1>16. Settled(u) /\ Honest(u, Now(u), file, stamp, clock)
    BY <1>13, <1>14, <1>15 DEF Settled, Honest
  <1>17. h.path = p /\ h.dir = d /\ h.config = cfg /\ file[p] # Missing
    BY <1>7, <1>10 DEF Config, Missing
  <1>18. Holding(u, Now(u), file, stamp, clock)
    BY <1>6, <1>7, <1>9, <1>14, <1>17 DEF Holding
  <1>19. TabOK(u, file, stamp, clock)
    BY <1>15, <1>16, <1>18 DEF TabOK
  <1> QED BY <1>4, <1>6, <1>12, <1>19, Moves

LEMMA ReviewedStep ==
  ASSUME Inv, NEW t \in Tabs, Reviewed(t)
  PROVE  Inv'
  <1>1. PICK s : s = tab[t]
    OBVIOUS
  <1>2. PICK h : h = s.held
    OBVIOUS
  <1>3. /\ Shape(s) /\ Now(s) = s.form /\ Honest(s, s.form, file, stamp, clock)
        /\ s.page = "run" /\ DOMAIN s.widgets = {}
        /\ h.path \in Names /\ h.dir \in Names /\ h.config \in Config
    BY <1>1, <1>2, TabIs DEF Reviewed, Settled, Holding
  <1>4. /\ Write(h.path, h.config) /\ review' = review /\ report' = report /\ acts' \in Nat
        /\ DOMAIN tab = Tabs /\ DOMAIN job = Names /\ FilesOK(file, stamp, clock)
    BY <1>1, <1>2 DEF Reviewed, Inv, RestOK
  <1>5. /\ file' = [file EXCEPT ![h.path] = h.config] /\ stamp' = [stamp EXCEPT ![h.path] = clock + 1]
        /\ clock' = clock + 1 /\ clock \in Nat /\ file'[h.path] = h.config /\ h.config # Missing
    BY <1>3, <1>4 DEF Write, FilesOK, Config, Missing
  <1>6. TabOK(s, file', stamp', clock')
    BY <1>1, <1>3, <1>4, <1>5, WriteKeepsTab DEF Inv
  <1>7. Honest(s, Now(s), file', stamp', clock')
    BY <1>6 DEF TabOK
  <1>8. CASE job' = job /\ tab' = [tab EXCEPT ![t].pc = "idle", ![t].held = <<>>]
    <2>1. PICK u : u = [s EXCEPT !.pc = "idle", !.held = <<>>]
      OBVIOUS
    <2>2. tab' = [tab EXCEPT ![t] = u]
      BY <1>1, <1>4, <1>8, <2>1
    <2>3. /\ DOMAIN u = Fields /\ u.form = s.form /\ u.widgets = s.widgets /\ u.project = s.project
          /\ u.page = s.page /\ u.edited = s.edited /\ u.overtaken = s.overtaken /\ u.intent = s.intent
          /\ u.pc = "idle"
      BY <1>3, <2>1 DEF Shape, Fields
    <2>4. Shape(u) /\ Now(u) = s.form
      <3>1. /\ u.project \in PathBox \cup {Uploads} /\ u.page \in {"setup", "run"}
            /\ u.edited \in BOOLEAN /\ u.overtaken \in BOOLEAN /\ u.intent \in BOOLEAN
        BY <1>3, <2>3 DEF Shape
      <3> QED BY <1>3, <2>3, <3>1, FlagsIs
    <2>5. Settled(u) /\ Honest(u, Now(u), file', stamp', clock') /\ Holding(u, Now(u), file', stamp', clock')
      BY <1>3, <1>7, <2>3, <2>4 DEF Settled, Honest, Holding
    <2>6. TabOK(u, file', stamp', clock')
      BY <2>4, <2>5 DEF TabOK
    <2>7. /\ DOMAIN tab' = Tabs /\ \A x \in Tabs : tab'[x] = tab[x] \/ TabOK(tab'[x], file', stamp', clock')
      BY <1>4, <2>2, <2>6
    <2>8. DOMAIN job' = Names /\ \A d \in Names : job'[d] = job[d]
      BY <1>4, <1>8
    <2> QED BY <1>3, <1>4, <2>7, <2>8, Writes
  <1>9. CASE StartJob(h.dir, h.path, "run", clock + 1) /\ RunScript(t, s)
    <2>1. TabOK(Begun(s), file', stamp', clock')
      BY <1>3, <1>7, BegunIs
    <2>2. tab' = [tab EXCEPT ![t] = Begun(s)]
      BY <1>9 DEF RunScript, Begun
    <2>3. DOMAIN tab' = Tabs /\ \A x \in Tabs : tab'[x] = tab[x] \/ TabOK(tab'[x], file', stamp', clock')
      BY <1>4, <2>1, <2>2
    <2>4. /\ DOMAIN job' = Names
          /\ \A d \in Names : job'[d] = job[d] \/ JobOK(d, job'[d], file', stamp', clock')
      <3>1. clock + 1 \in Nat /\ file'[h.path] # Missing
        BY <1>5
      <3> QED BY <1>3, <1>9, <3>1, StartedIs
    <2> QED BY <1>3, <1>4, <2>3, <2>4, Writes
  <1> QED BY <1>1, <1>2, <1>8, <1>9 DEF Reviewed

LEMMA JobLoadsStep ==
  ASSUME Inv, NEW d \in Names, JobLoads(d)
  PROVE  Inv'
  <1>1. PICK cfg : cfg = TryLoad(job[d].path)
    OBVIOUS
  <1>2. PICK j : j = [job[d] EXCEPT !.into = cfg.dir, !.seen = stamp[job[d].path]]
    OBVIOUS
  <1>3. DOMAIN tab = Tabs /\ DOMAIN job = Names /\ JobOK(d, job[d], file, stamp, clock)
    BY DEF Inv
  <1>4. job' = [job EXCEPT ![d] = j] /\ job[d].running
    BY <1>1, <1>2, <1>3 DEF JobLoads
  <1>5. /\ job[d] \in Job /\ job[d].path \in Names /\ cfg = file[job[d].path] /\ cfg \in Config
        /\ stamp[job[d].path] \in Nat
    BY <1>1, <1>3, <1>4 DEF JobOK, TryLoad, Inv, FilesOK
  <1>6. cfg.dir \in Names
    BY <1>5 DEF Config
  <1>7. /\ j \in Job /\ j.path = job[d].path /\ j.running = job[d].running /\ j.by = job[d].by
        /\ j.wrote = job[d].wrote /\ j.into = cfg.dir /\ j.seen = stamp[job[d].path]
    BY <1>2, <1>5, <1>6 DEF Job, PathBox
  <1>8. JobOK(d, j, file, stamp, clock)
    BY <1>3, <1>5, <1>7 DEF JobOK
  <1>9. UNCHANGED <<file, stamp, clock>> /\ tab' = tab /\ RestOK'
    BY DEF JobLoads, Inv, RestOK
  <1>10. /\ DOMAIN job' = Names
         /\ \A x \in Names : job'[x] = job[x] \/ JobOK(x, job'[x], file, stamp, clock)
    BY <1>3, <1>4, <1>8
  <1> QED BY <1>3, <1>9, <1>10, Reads

LEMMA JobEndsStep ==
  ASSUME Inv, NEW d \in Names, JobEnds(d)
  PROVE  Inv'
  <1>1. PICK j : j = [job[d] EXCEPT !.running = FALSE]
    OBVIOUS
  <1>2. DOMAIN tab = Tabs /\ DOMAIN job = Names /\ JobOK(d, job[d], file, stamp, clock)
    BY DEF Inv
  <1>3. job' = [job EXCEPT ![d] = j] /\ job[d].into # Nowhere
    BY <1>1, <1>2 DEF JobEnds
  <1>4. job[d] \in Job
    BY <1>2 DEF JobOK
  <1>5. j \in Job /\ ~j.running /\ j.path = job[d].path /\ j.by = job[d].by
        /\ j.wrote = job[d].wrote /\ j.into = job[d].into /\ j.seen = job[d].seen
    BY <1>1, <1>4 DEF Job
  <1>6. JobOK(d, j, file, stamp, clock)
    BY <1>2, <1>5 DEF JobOK
  <1>7. job[d].into \in Names /\ job[d].path \in PathBox
    BY <1>3, <1>4 DEF Job, PathBox
  <1>8. RestOK'
    <2>1. TryLoad(job[d].path) \in Config \cup {Missing}
      BY <1>7, StampIs
    <2>2. [path |-> job[d].path, config |-> TryLoad(job[d].path)] \in Report
      BY <1>7, <2>1 DEF Report
    <2>3. review' \subseteq Names
      BY <1>7 DEF JobEnds, Inv, RestOK
    <2>4. report' \in [Names -> Report]
      BY <1>7, <2>2 DEF JobEnds, Inv, RestOK
    <2> QED BY <2>3, <2>4 DEF JobEnds, Inv, RestOK
  <1>9. UNCHANGED <<file, stamp, clock>> /\ tab' = tab
    BY DEF JobEnds
  <1>10. /\ DOMAIN job' = Names
         /\ \A x \in Names : job'[x] = job[x] \/ JobOK(x, job'[x], file, stamp, clock)
    BY <1>2, <1>3, <1>6
  <1> QED BY <1>2, <1>8, <1>9, <1>10, Reads

LEMMA OutsideStep ==
  ASSUME Inv, NEW n \in Names, PipelineInit(n) \/ HandEdit(n)
  PROVE  Inv'
  <1>1. UNCHANGED <<tab, job, review, report, acts>>
    BY DEF PipelineInit, HandEdit
  <1>2. PICK cfg \in Config : Write(n, cfg)
    <2>1. CASE PipelineInit(n)
      <3>1. Template(n) \in Config
        BY DEF Template, Config
      <3> QED BY <2>1, <3>1 DEF PipelineInit
    <2>2. CASE HandEdit(n)
      <3>1. file[n] \in Config
        BY <2>2 DEF HandEdit, Inv, FilesOK
      <3>2. [file[n] EXCEPT !.approved = ~@] \in Config
        BY <3>1 DEF Config
      <3> QED BY <2>2, <3>2 DEF HandEdit
    <2> QED BY <2>1, <2>2
  <1>3. DOMAIN tab = Tabs /\ DOMAIN job = Names /\ acts \in Nat
    BY DEF Inv, RestOK
  <1> QED BY <1>1, <1>2, <1>3, Writes

----
(* The theorems *)

LEMMA InitInv == Init => Inv
  <1> SUFFICES ASSUME Init PROVE Inv
    OBVIOUS
  <1>1. file \in [Names -> Config \cup {Missing}]
    <2>1. \A n \in Names : Template(n) \in Config
      BY DEF Template, Config
    <2> QED BY <2>1 DEF Init
  <1>2. There \subseteq Names /\ IsFiniteSet(There)
    BY SessionAssumption, FS_Subset DEF There
  <1>3. Cardinality(There) \in Nat /\ clock \in Nat /\ clock = Cardinality(There)
    BY <1>2, FS_CardinalityType DEF Init
  <1>4. PICK order \in Bijection(There, 1..Cardinality(There)) :
          stamp = [n \in Names |-> IF n \in There THEN order[n] ELSE 0]
    BY DEF Init
  <1>5. \A n \in There : order[n] \in 1..Cardinality(There)
    BY <1>4 DEF Bijection, Injection, Surjection
  <1>6. FilesOK(file, stamp, clock)
    <2>1. PICK c : c = Cardinality(There)
      OBVIOUS
    <2>2. c \in Nat /\ clock = c /\ \A n \in There : order[n] \in 1..c
      BY <1>3, <1>5, <2>1
    <2>3. \A n \in Names : stamp[n] = IF n \in There THEN order[n] ELSE 0
      BY <1>4
    <2>4. \A n \in Names : stamp[n] \in Nat /\ stamp[n] <= c /\ (stamp[n] = 0 <=> n \notin There)
      BY <2>2, <2>3
    <2>5. \A n \in Names : n \notin There <=> file[n] = Missing
      BY DEF There
    <2>6. stamp \in [Names -> Nat]
      BY <1>4, <2>4
    <2> HIDE DEF There
    <2> QED BY <1>1, <2>2, <2>4, <2>5, <2>6 DEF FilesOK
  <1>7. RestOK
    <2>1. review \subseteq Names /\ acts \in Nat
      BY <1>2 DEF Init
    <2>2. report \in [Names -> Report]
      BY DEF Init, NoReport, Report, PathBox
    <2> QED BY <2>1, <2>2 DEF RestOK
  <1>8. ASSUME NEW t \in Tabs
        PROVE  TabOK(tab[t], file, stamp, clock)
    <2>1. tab[t] = NewTab
      BY DEF Init
    <2>2. EmptyForm \in Form /\ DOMAIN EmptyForm = FormKeys /\ Keys \subseteq FormKeys
      BY DEF EmptyForm, Form, PathBox, FormKeys, Keys
    <2>3. NewTab.widgets = Only(EmptyForm, Keys) /\ NewTab.form = EmptyForm /\ DOMAIN NewTab.widgets = Keys
      BY DEF NewTab, Only
    <2>4. Now(NewTab) = EmptyForm
      <3>1. EmptyForm = [k \in FormKeys |-> EmptyForm[k]]
        BY <2>2, FormIs
      <3>2. Over(Only(EmptyForm, Keys), EmptyForm) = [k \in FormKeys |-> EmptyForm[k]]
        BY <2>2 DEF Over, Only
      <3> QED BY <2>3, <3>1, <3>2 DEF Now
    <2>5. /\ DOMAIN NewTab = Fields /\ NewTab.project = Nowhere /\ NewTab.page = "setup" /\ NewTab.pc = "idle"
          /\ NewTab.edited = FALSE /\ NewTab.overtaken = FALSE /\ NewTab.intent = FALSE
      BY DEF NewTab, Fields
    <2>6. Shape(NewTab)
      BY <2>2, <2>3, <2>4, <2>5 DEF Shape, PathBox
    <2>7. Settled(NewTab) /\ Holding(NewTab, EmptyForm, file, stamp, clock)
      BY <2>3, <2>4, <2>5 DEF Settled, Holding
    <2>8. EmptyForm.approved = FALSE /\ EmptyForm.stamp = 0 /\ EmptyForm.path = Nowhere
      BY DEF EmptyForm
    <2>9. Honest(NewTab, EmptyForm, file, stamp, clock)
      <3>1. EmptyForm.approved = NewTab.intent
        BY DEF EmptyForm, NewTab
      <3>2. EmptyForm.stamp = 0 /\ EmptyForm.path = Nowhere /\ 0 <= clock
        BY <1>3, <2>8
      <3> QED BY <3>1, <3>2 DEF Honest
    <2> QED BY <2>1, <2>4, <2>6, <2>7, <2>9 DEF TabOK
  <1>9. ASSUME NEW d \in Names
        PROVE  JobOK(d, job[d], file, stamp, clock)
    <2>1. job[d] = NoJob \/ job[d] = [NoJob EXCEPT !.path = d]
      BY DEF Init
    <2>2. /\ NoJob \in Job /\ [NoJob EXCEPT !.path = d] \in Job
          /\ ~NoJob.running /\ NoJob.by = "nobody"
          /\ ~[NoJob EXCEPT !.path = d].running /\ [NoJob EXCEPT !.path = d].by = "nobody"
      BY DEF NoJob, Job, PathBox
    <2> QED BY <2>1, <2>2 DEF JobOK
  <1>10. DOMAIN tab = Tabs /\ DOMAIN job = Names
    BY DEF Init
  <1> QED BY <1>6, <1>7, <1>8, <1>9, <1>10 DEF Inv

LEMMA NextInv == Inv /\ [Next]_vars => Inv'
  <1> SUFFICES ASSUME Inv, [Next]_vars PROVE Inv'
    OBVIOUS
  <1>1. CASE UNCHANGED vars
    BY <1>1 DEF vars, Inv, RestOK
  <1>2. ASSUME NEW t \in Tabs,
               \/ Begin(t) \/ Reload(t) \/ Visit(t) \/ FillIn(t) \/ EditYaml(t) \/ ApplyTarget(t)
               \/ Clear(t) \/ SetUploads(t) \/ OpenDir(t) \/ Opened(t) \/ GenerateYaml(t)
               \/ YamlAction(t) \/ Saved(t) \/ Review(t) \/ Reviewed(t)
        PROVE  Inv'
    BY <1>2, BeginStep, ReloadStep, VisitStep, FillInStep, EditYamlStep, ApplyTargetStep, ClearStep,
       SetUploadsStep, OpenDirStep, OpenedStep, GenerateYamlStep, YamlActionStep, SavedStep, ReviewStep,
       ReviewedStep
  <1>3. ASSUME NEW n \in Names, JobLoads(n) \/ JobEnds(n) \/ PipelineInit(n) \/ HandEdit(n)
        PROVE  Inv'
    BY <1>3, JobLoadsStep, JobEndsStep, OutsideStep
  <1> QED BY <1>1, <1>2, <1>3 DEF Next

\* The invariant of the sessions holds in every run.
THEOREM SessionInvariant == Spec => []Inv
  BY InitInv, NextInv, PTL DEF Spec

\* A tab that nobody has typed into and whose timestamp is the file's shows the file
\* (`refresh_from_disk` of ui/project.py), for any tabs, folders, writes and edits.
THEOREM TimestampsAreHonest == Spec => []StampMeansSeen
  <1>1. Inv => StampMeansSeen
    <2> SUFFICES ASSUME Inv, NEW t \in Tabs, tab[t].pc = "idle", ~tab[t].edited, ~tab[t].overtaken,
                        tab[t].form.stamp # 0, tab[t].form.stamp = StampOf(tab[t].form.path)
                 PROVE  tab[t].form.yaml = file[tab[t].form.path]
      BY DEF StampMeansSeen
    <2>1. Now(tab[t]) = tab[t].form
      BY TabIs DEF Settled
    <2>2. StampOf(tab[t].form.path) = Mtime(stamp, tab[t].form.path)
      BY DEF StampOf, Mtime
    <2> QED BY <2>1, <2>2, TabIs DEF Honest
  <1> QED BY <1>1, SessionInvariant, PTL

\* A box of the form keeps what the person put in it, or what was loaded into it, through
\* pages, reloads and the copies the widgets keep (ui/project.py).
THEOREM BoxesKeepTheirValue == Spec => []FormIsAsLeft
  <1>1. Inv => FormIsAsLeft
    <2> SUFFICES ASSUME Inv, NEW t \in Tabs, tab[t].pc = "idle"
                 PROVE  /\ tab[t].form.approved = tab[t].intent
                        /\ tab[t].page = "setup" => tab[t].widgets.approved = tab[t].intent
      BY DEF FormIsAsLeft
    <2>1. Now(tab[t]) = tab[t].form /\ (tab[t].page = "setup" => DOMAIN tab[t].widgets = Keys)
      BY TabIs DEF Settled
    <2>2. tab[t].form.approved = tab[t].intent
      BY <2>1, TabIs DEF Honest
    <2>3. \A k \in DOMAIN tab[t].widgets : Now(tab[t])[k] = tab[t].widgets[k]
      BY CopiesAre
    <2>4. tab[t].page = "setup" => Now(tab[t]).approved = tab[t].widgets.approved
      BY <2>1, <2>3 DEF Keys
    <2> QED BY <2>1, <2>2, <2>4
  <1> QED BY <1>1, SessionInvariant, PTL

\* A job of the setup page works in the folder it is recorded in, unless its config was
\* written again before it was read (`_yaml_action` of ui/app_pages/setup.py).
THEOREM JobsStayInTheirFolder == Spec => []JobRunsWhereRecorded
  <1>1. Inv => JobRunsWhereRecorded
    BY DEF Inv, JobOK, JobRunsWhereRecorded
  <1> QED BY <1>1, SessionInvariant, PTL
====
