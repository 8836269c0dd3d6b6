----------------------------- MODULE MCStartup -----------------------------
(* Instance of Startup for TLC: no tables, and tables of five ages. *)
EXTENDS Startup, TLC

Empty == {}
Oldest == {"posts", "comments", "admins", "practice_chapters", "practice_exercises"}
\* Left by a start that was cut off, or by versions in between.
Younger == {"posts", "posts.topic", "posts.status", "posts.theme", "topics", "comments",
            "comments.parent_id", "comments.owner_token", "admins", "admins.nickname",
            "practice_chapters", "practice_exercises", "exercises.options", "practice_progress"}
MCOld == {Empty, {"posts"}, Oldest, Younger, Complete \ {"exercises.solution"},
          Complete \ {"posts.author_id"}}

=============================================================================
