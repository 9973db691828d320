CONSTANTS
    vless = vless
    dnstt = dnstt
    key = key
    pub = pub
    short_id = short_id
    server_key = server_key
    server_pub = server_pub
    b1 = b1
    b2 = b2
    b3 = b3
    Gone = Gone
    Protocol = {vless, dnstt}
    Secret = {key, pub, short_id, server_key, server_pub}
    Minted <- MCMinted
    Prepared <- MCPrepared
    Needs <- MCNeeds
    Face <- MCFace
    Source <- MCSource
    Batch = {b1, b2, b3}
SPECIFICATION Spec
SYMMETRY MCSymmetry
INVARIANTS HalvesAgree OnMeansPrepared
PROPERTY ProfilesKeepWorking
