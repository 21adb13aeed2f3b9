---- MODULE MCProfileService ----
(* Few texts: the first profile, and those of two mutations and an edit or two. *)
EXTENDS ProfileService

\* No property says anything of what follows once a lock was removed under its holder, and
\* `robbed` stays: those states are not explored further.
NotRobbed == ~robbed
====
