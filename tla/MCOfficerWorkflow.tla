------------------------- MODULE MCOfficerWorkflow -------------------------
(***************************************************************************)
(* OfficerWorkflow for TLC: two characters and a sync run of the guild, a  *)
(* character of another guild and an id that nothing has.                  *)
(***************************************************************************)
EXTENDS OfficerWorkflow, TLC

CONSTANTS q1, q2, o1, o2, c1, c2, run, other, nobody, t1, t2

MCGuildOf ==
    (c1 :> "home") @@ (c2 :> "home") @@ (run :> "home") @@ (other :> "away") @@ (nobody :> None)

Bulk(ids, add, remove) ==
    [NoAsk EXCEPT !.op = "bulk_tags", !.ids = ids, !.add = add, !.remove = remove]
Review(ids) == [NoAsk EXCEPT !.op = "review_complete", !.ids = ids]
Update(c, note, status, tags) ==
    [NoAsk EXCEPT !.op = "character_update", !.ids = <<c>>, !.note = note,
                  !.status = status, !.add = tags]

Batches == {Bulk(<<c1, c2>>, {t1}, {}), Bulk(<<c2, c1>>, {t2}, {t1}), Bulk(<<c1>>, {t1, t2}, {}),
            Bulk(<<c1, c1>>, {t1}, {}), Bulk(<<c1, other>>, {t1}, {}), Bulk(<<nobody, c1>>, {}, {t1}),
            Review(<<c1, run>>), Review(<<c2, c1>>), Review(<<run, other>>)}
Edits == {Update(c1, "", "", {}), Update(c1, "n1", "trial", {t1}), Update(c1, "n2", "", {t2}),
          Update(c1, "n1", "trial", {t1, t2}), Update(other, "n1", "", {})}
MixedAsks == Batches \cup Edits
=============================================================================
