SPECIFICATION Spec
CONSTANTS
    tenant1 = tenant1
    tenant2 = tenant2
    register1 = register1
    register2 = register2
    key1 = key1
    key2 = key2
    ann = ann
    bob = bob
    api = api
    console = console
    Tenant = {tenant1, tenant2}
    Register = {register1, register2}
    Key = {key1, key2}
    NoKey = NoKey
    Person = {ann, bob}
    Administrator = ann
    Nobody = Nobody
    BODY_LIMIT = 1
    ApiConnection = {api}
    ConsoleConnection = {console}
SYMMETRY AccessSymmetry
PROPERTIES
    OwnRegisterOnly
    PagesByRole
