SPECIFICATION Spec
CONSTANTS
    Threads = {t1, t2, t3}
    Names = {triage, readonly, typo}
    Shipped = {triage, readonly}
    Reloads = TRUE
    None = None
INVARIANTS TypeOK LoaderIsRight TableHeals
