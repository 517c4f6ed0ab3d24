\* Invitations presented at once, by accounts that share an address.
SPECIFICATION Spec
CONSTANTS
    ann = ann  Ann = Ann  boss = boss
    annAt = annAt  bossAt = bossAt
    t1 = t1  t2 = t2  t3 = t3
    None = None
    Account = {ann, Ann, boss}
    Address = {annAt, bossAt}
    AddressOf <- MCAddressOf
    Superuser = {Ann}
    Token = {t1, t2, t3}
    Request = {r1, r2, r3}
    Jobs <- MCJobs
    Seeds <- MCSeeds
    Founders <- MCFounders
    AdminRows <- MCAdminRows
    MaxNow = 1
SYMMETRY Requests
INVARIANT RoleGranted
INVARIANT SpentLetsIn
