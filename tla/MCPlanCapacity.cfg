SPECIFICATION Spec
CONSTANTS
    create = create
    many = many
    import = import
    c1 = c1
    c2 = c2
    r1 = r1
    r2 = r2
    r3 = r3
    r4 = r4
    large = large
    enterprise = enterprise
    Ops = {create, many, import}
    Imports = {import}
    Batch <- BatchOf
    Ids = {c1, c2}
    Plans = {large, enterprise}
    PlanLimit <- Limits
    FirstPlan = large
    NoClaim = NoClaim
    Nobody = Nobody
SYMMETRY Symmetry
INVARIANTS
    ActiveWithinPlan
