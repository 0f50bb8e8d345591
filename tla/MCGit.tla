------------------------------- MODULE MCGit -------------------------------
(***************************************************************************)
(* The git mod for TLC: four parts of it in one run, of which a behaviour  *)
(* exercises the one its focus names, over small instances.                *)
(***************************************************************************)
EXTENDS GitProcess, GitPages, GitRoutes

VARIABLE focus

gitVars == <<focus, processVars, pageVars, searchVars, routeVars>>

MCNames == <<"r", "s">>
MCRepo == {<<"apis", "r">>, <<"u", "r">>, <<"u", "s">>}

\* Bodies and outputs are empty or more than a pipe holds.
Sizes == \A r \in Run : {job[r].body, job[r].output} \subseteq {0, PipeSize + 1}
NoJob == [reads |-> "nothing", body |-> 0, output |-> 0]

\* One repository has any visibility, and one row but for administrators.  For a search
\* the row does not let write; without a row another repository is for everyone or its
\* owner, and with one of the owner himself that of the same name is.  For a request the
\* row is the requester's, and the visibility one of the two ends.
Varied ==
    /\ \A r \in Repo : r # <<"u", "r">> => catalog[r].likes = 0
    /\ \A g \in grants : g.repo = <<"u", "r">> /\ g.level # 3
    /\ catalog[<<"apis", "r">>].visibility \in {OnlyOwner, Public}
    /\ catalog[<<"apis", "r">>].visibility = OnlyOwner => \E g \in grants : g.who = "u"
    /\ catalog[<<"u", "s">>].visibility \in {OnlyOwner, Public}
    /\ catalog[<<"u", "s">>].visibility = OnlyOwner => grants = {}

\* The rows of the parts that do not look at them.
Fixed ==
    /\ grants = {} /\ asker = Nobody
    /\ \A r \in Repo : catalog[r] = [visibility |-> Public, likes |-> 0]

GitInit ==
    /\ focus \in {"process", "pages", "search", "routes"}
    /\ grants \in {{}} \cup {{g} : g \in Grant}
    /\ SearchInit
    /\ IF focus \in {"search", "routes"} THEN Varied ELSE Fixed
    /\ focus = "search" => \A g \in grants : g.level # Write /\ catalog[<<"u", "r">>].likes = 0
    /\ focus = "routes" => /\ catalog[<<"u", "r">>].likes = 0
                           /\ catalog[<<"apis", "r">>].visibility = Public
                           /\ \A g \in grants : g.who = asker
                           /\ grants # {} => catalog[<<"u", "r">>].visibility \in {OnlyOwner, Public}
                           /\ catalog[<<"u", "s">>].visibility = Public
    /\ ProcessInit
    /\ IF focus = "process" THEN Sizes ELSE \A r \in Run : job[r] = NoJob
    /\ PagesInit /\ RoutesInit

\* The first commit has every file, and each writes one.
SmallPush ==
    Len(commits') > Len(commits) =>
        LET tree == commits'[Len(commits')].tree IN
        /\ commits = <<>> => \A f \in File : tree[f] # 0
        /\ \E f \in File : tree[f] = Len(commits')

ProcessOnly ==
    focus = "process" /\ UNCHANGED <<focus, pageVars, searchVars, routeVars>>

GitNext ==
    \/ ProcessNext /\ ProcessOnly
    \/ /\ focus = "pages" /\ PagesNext /\ SmallPush
       /\ UNCHANGED <<focus, processVars, searchVars, routeVars>>
    \/ /\ focus = "search" /\ SearchNext
       /\ UNCHANGED <<focus, processVars, pageVars, routeVars>>
    \/ /\ focus = "routes" /\ RoutesNext
       /\ UNCHANGED <<focus, processVars, pageVars, searchVars>>

GitSpec ==
    /\ GitInit /\ [][GitNext]_gitVars
    /\ \A r \in Run : /\ WF_gitVars(ProcessOnly /\ ServerStep(r))
                      /\ WF_gitVars(ProcessOnly /\ ChildStep(r))
=============================================================================
