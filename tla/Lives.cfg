SPECIFICATION LivesSpec
CONSTANTS
    c1 = c1
    c2 = c2
    Clients = {c1, c2}
    NoClient = NoClient
    Psns = {1, 2}
    MaxQps = 3
    RECV_BUFFS = 2
    MAX_CLIENTS_SUPPORTED = 2
    SERVER_NUM_SEND_BUFFS = 2
    ServerMayFail = {"ibv_get_device_list", "device", "server_init_ctx", "get_port_info", "lid", "connect_ctx"}
    MaxConns = 3
    MaxAsks = 2
    CLIENT_NUM_SEND_BUFFS = 2
    Window = 3
    Iters = 2
    ClientMayFail = {"ibv_get_device_list", "client_init_ctx", "client_post_recv_buffers", "client_exch_dest", "connect_ctx"}
    ServerMayCrash = TRUE
    MaxOps = 3
INVARIANTS
    LivesTypeOK
    PairsMatch
    ClientsAreTold
    RecordsAreThere
    SendsAreIntact
PROPERTIES
    FirstRequestArrives
    SignalEndsServer
    SignalEndsClient
    CallsEnd
CHECK_DEADLOCK FALSE
