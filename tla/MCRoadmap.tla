------------------------------- MODULE MCRoadmap -------------------------------
(* An instance of RoadmapFile for TLC. *)
EXTENDS RoadmapProperties

Row(t, s) == [title |-> t, status |-> s]

(* "auth" is a title of its own and a part of another. *)
MCTitles == {"auth", "auth ui"}
MCContains == {<<t, t>> : t \in MCTitles} \cup {<<"auth", "auth ui">>}
MCTexts == {<<[section |-> "build"], Row("auth ui", "partial"), Row("auth", "partial")>>,
            <<[section |-> "build"], Row("auth ui", "shipped")>>}

MCRequests ==
  [op : {"update"}, title : {"auth"}, status : {"shipped", None}]
    \cup [op : {"update"}, title : {"auth ui"}, status : {"partial"}]
    \cup [op : {"add"}, section : {"build"}, title : {"auth"}, status : {"partial"}]
    \cup [op : {"overwrite"}, text : {<<[section |-> "build"], Row("auth ui", "shipped")>>}]
    \cup [op : {"read"}]
=============================================================================
